---- MODULE Spec2Model ----
(***************************************************************************)
(* State-machine model of async_upnp_client/server.py: the SSDP search     *)
(* responder, the SSDP advertisement announcer, the asyncio event loop     *)
(* that runs them, the start and stop of UpnpServer and the SOAP action    *)
(* handler.                                                                *)
(*                                                                         *)
(* Strings whose characters matter (ST, NT, USN, UDN, device and service   *)
(* types, LOCATION) are sequences of one-character strings, so that        *)
(* str.lower(), concatenation and the "::" split are computed.  Strings    *)
(* that the code only compares for equality (request line, MAN, NTS,       *)
(* addresses) are TLA+ strings.                                            *)
(***************************************************************************)
EXTENDS Integers, Sequences, FiniteSets, TLC

VARIABLES
    device,          \* UpnpServer._device: the instantiated device tree
    pc,              \* position of UpnpServer.async_start / async_stop
    respTransport,   \* SsdpSearchResponder._transport
    annTransport,    \* SsdpAdvertisementAnnouncer._transport
    advertisements,  \* SsdpAdvertisementAnnouncer._advertisements
    advIndex,        \* SsdpAdvertisementAnnouncer._advertisement_index
    timerPending,    \* a loop.call_later(30, self._announce_next) handle is pending
    ready,           \* the event loop's FIFO of _async_on_data tasks
    callbacks,       \* the event loop's FIFO of handles while async_start runs
    reading,         \* the responder's socket is registered with the loop's selector
    \* History:
    received,        \* the inbound datagrams, in order of arrival
    done,            \* ids of the datagrams whose task has finished
    raised,          \* ids of the datagrams whose task ended with an exception
    sent,            \* every datagram sent through an open transport, in order
    \* HTTP:
    site,            \* UpnpServer._site
    request,         \* the control POST given to action_handler
    response,        \* what action_handler answered, or the exception it let out
    invoked,         \* calls of the bound handler made for the request
    called_with,     \* the keyword arguments of the last call of the handler
    state_variables, \* UpnpStateVariable.value of the service's state variables
    \* The service:
    service_class,   \* the UpnpServerService subclass of the device class
    state_var_infos, \* service.state_variables: type and send_events by name
    service_actions, \* service.actions: the arguments of each action by name
    created          \* the last call of create_state_var on the built service

ssdpVars == <<device, pc, respTransport, annTransport, advertisements, advIndex,
              timerPending, ready, callbacks, reading, received, done, raised, sent>>

serviceVars == <<request, response, invoked, called_with, state_variables,
                 service_class, state_var_infos, service_actions, created>>

httpVars == <<site, request, response, invoked, called_with, state_variables,
              service_class, state_var_infos, service_actions, created>>

vars == <<device, pc, respTransport, annTransport, advertisements, advIndex,
          timerPending, ready, callbacks, reading, received, done, raised, sent,
          site, request, response, invoked, called_with, state_variables,
          service_class, state_var_infos, service_actions, created>>

-----------------------------------------------------------------------------
(* Bounds of the model.                                                    *)

\* Devices in a tree (root included).
MaxDevices == 3
\* Services in a tree.
MaxServices == 2
\* Inbound datagrams in a run of the whole event loop.
MaxInFlight == 2
\* Devices in a tree in a run of the whole event loop.
MaxLoopDevices == 1
\* Alive advertisements recorded in a run of the whole event loop.
MaxLoopAlive == 2
\* Passes through the advertisement list in a run of the announcer alone.
MaxCycles == 2

-----------------------------------------------------------------------------
(* Strings.                                                                *)

\* A header the datagram does not carry: as the value of a header held as a
\* TLA+ string (MAN), and of one held as a sequence of characters (ST).
NoHeader == "<absent>"
NoST == <<"<absent>">>
NoTransport == "None"

LowerChar(c) ==
    CASE c = "A" -> "a" [] c = "B" -> "b" [] c = "C" -> "c" [] c = "D" -> "d"
      [] c = "E" -> "e" [] c = "F" -> "f" [] c = "G" -> "g" [] c = "H" -> "h"
      [] c = "I" -> "i" [] c = "J" -> "j" [] c = "K" -> "k" [] c = "L" -> "l"
      [] c = "M" -> "m" [] c = "N" -> "n" [] c = "O" -> "o" [] c = "P" -> "p"
      [] c = "Q" -> "q" [] c = "R" -> "r" [] c = "S" -> "s" [] c = "T" -> "t"
      [] c = "U" -> "u" [] c = "V" -> "v" [] c = "W" -> "w" [] c = "X" -> "x"
      [] c = "Y" -> "y" [] c = "Z" -> "z" [] OTHER -> c

UpperChar(c) ==
    CASE c = "a" -> "A" [] c = "b" -> "B" [] c = "c" -> "C" [] c = "d" -> "D"
      [] c = "e" -> "E" [] c = "f" -> "F" [] c = "g" -> "G" [] c = "h" -> "H"
      [] c = "i" -> "I" [] c = "j" -> "J" [] c = "k" -> "K" [] c = "l" -> "L"
      [] c = "m" -> "M" [] c = "n" -> "N" [] c = "o" -> "O" [] c = "p" -> "P"
      [] c = "q" -> "Q" [] c = "r" -> "R" [] c = "s" -> "S" [] c = "t" -> "T"
      [] c = "u" -> "U" [] c = "v" -> "V" [] c = "w" -> "W" [] c = "x" -> "X"
      [] c = "y" -> "Y" [] c = "z" -> "Z" [] OTHER -> c

\* str.lower()
Lower(s) == [i \in 1..Len(s) |-> LowerChar(s[i])]

\* str.upper(); used only to build probes whose case differs from the model's.
Upper(s) == [i \in 1..Len(s) |-> UpperChar(s[i])]

\* The "::" of the f-strings that build a USN.
Sep == <<":", ":">>

\* usn.split("::")[0]: the part before the first "::", or all of it.
UsnPrefix(usn) ==
    LET hits == {i \in 1..(Len(usn) - 1) : usn[i] = ":" /\ usn[i + 1] = ":"}
    IN  IF hits = {} THEN usn
        ELSE SubSeq(usn, 1, (CHOOSE i \in hits : \A j \in hits : i <= j) - 1)

\* async_upnp_client.ssdp constants.
SSDP_DISCOVER == "\"ssdp:discover\""
SSDP_ST_ALL == <<"s","s","d","p",":","a","l","l">>
SSDP_ST_ROOTDEVICE == <<"u","p","n","p",":","r","o","o","t","d","e","v","i","c","e">>

\* The literal "upnp:rootdevice" of lines 354, 435 and 436.
RootDeviceLiteral == <<"u","p","n","p",":","r","o","o","t","d","e","v","i","c","e">>

M_SEARCH_LINE == "M-SEARCH * HTTP/1.1"
NOTIFY_LINE == "NOTIFY * HTTP/1.1"
RESPONSE_LINE == "HTTP/1.1 200 OK"

\* determine_source_target(source, target)[1]: the multicast group.
MulticastTarget == "239.255.255.250:1900"

-----------------------------------------------------------------------------
(* The device tree (UpnpServerDevice, built from static definitions).      *)
(* A tree is a record                                                      *)
(*   n           number of devices; device 1 is the root                   *)
(*   udn         device -> UDN                                             *)
(*   device_type device -> device type                                     *)
(*   embedded    device -> its embedded devices, in insertion order        *)
(*   services    device -> the service types of its services, in order     *)
(*   base_uri, device_url                                                  *)

UdnLetters == <<"A", "B", "C", "D", "E", "F">>

UdnOf(i) == <<"u","u","i","d",":", UdnLetters[i]>>

DeviceTypeSeq ==
    << <<"u","r","n",":","d","e","v",":","T","v",":","1">>,
       <<"u","r","n",":","d","e","v",":","C","a","m",":","1">> >>

ServiceTypeSeq ==
    << <<"u","r","n",":","s","v","c",":","D","i","m",":","1">>,
       <<"u","r","n",":","s","v","c",":","S","w",":","1">> >>

BaseUri == <<"h","t","t","p",":","/","/","h",":","8">>
DeviceUrl == <<"/","d",".","x","m","l">>

RECURSIVE AscSeq(_)
AscSeq(S) ==
    IF S = {} THEN <<>>
    ELSE LET m == CHOOSE x \in S : \A y \in S : x <= y
         IN  <<m>> \o AscSeq(S \ {m})

Reverse(s) == [i \in 1..Len(s) |-> s[Len(s) + 1 - i]]

\* The trees carry their k services in one of three placements: all on the
\* root, dealt over the devices from the root on, dealt over the embedded
\* devices; the services are all of one type or of alternating types.
Placements == {"root", "spread", "embedded"}

ServiceOwner(n, place, j) ==
    IF place = "root" \/ n = 1 THEN 1
    ELSE IF place = "spread" THEN 1 + ((j - 1) % n)
    ELSE 2 + ((j - 1) % (n - 1))

ServiceTypeOf(same, j) ==
    IF same THEN ServiceTypeSeq[1]
    ELSE ServiceTypeSeq[1 + ((j - 1) % Len(ServiceTypeSeq))]

\* The service types of the services of device d, in order of definition.
ServicesOf(n, k, place, same, d) ==
    LET js == AscSeq({j \in 1..k : ServiceOwner(n, place, j) = d})
    IN  [i \in 1..Len(js) |-> ServiceTypeOf(same, js[i])]

MkTree(n, parent, rev, uniform, k, place, same) ==
    [n           |-> n,
     udn         |-> [d \in 1..n |-> UdnOf(d)],
     device_type |-> [d \in 1..n |->
                        IF uniform THEN DeviceTypeSeq[1]
                        ELSE DeviceTypeSeq[1 + ((d - 1) % 2)]],
     embedded    |-> [d \in 1..n |->
                        LET kids == AscSeq({e \in 2..n : parent[e] = d})
                        IN  IF rev THEN Reverse(kids) ELSE kids],
     services    |-> [d \in 1..n |-> ServicesOf(n, k, place, same, d)],
     base_uri    |-> BaseUri,
     device_url  |-> DeviceUrl]

\* UpnpDevice holds the services of a device in a dict (device.services): the
\* trees give a device no two services of one type.
DistinctServiceTypes(t) ==
    \A d \in 1..t.n : \A i, j \in 1..Len(t.services[d]) :
        t.services[d][i] = t.services[d][j] => i = j

TreesOfSize(n, maxServices) ==
    {t \in {MkTree(n, parent, rev, uniform, k, place, same) :
                parent \in {p \in [2..n -> 1..n] : \A e \in 2..n : p[e] < e},
                rev \in BOOLEAN, uniform \in BOOLEAN, k \in 0..maxServices,
                place \in Placements, same \in BOOLEAN} :
        DistinctServiceTypes(t)}

Trees(maxDevices, maxServices) ==
    UNION {TreesOfSize(n, maxServices) : n \in 1..maxDevices}

RootDevice == 1

\* UpnpDevice.all_devices: the device, then the devices of each embedded
\* device, depth first in insertion order.
RECURSIVE AllDevicesFrom(_, _), AllDevicesOfList(_, _)
AllDevicesFrom(t, d) == <<d>> \o AllDevicesOfList(t, t.embedded[d])
AllDevicesOfList(t, ds) ==
    IF ds = <<>> THEN <<>>
    ELSE AllDevicesFrom(t, Head(ds)) \o AllDevicesOfList(t, Tail(ds))

all_devices(t) == AllDevicesFrom(t, RootDevice)

\* UpnpDevice.all_services: the services of each device in all_devices order.
\* A service is [device |-> owner, service_type |-> type].
RECURSIVE ServicesOfDevices(_, _)
ServicesOfDevices(t, ds) ==
    IF ds = <<>> THEN <<>>
    ELSE [i \in 1..Len(t.services[Head(ds)]) |->
            [device |-> Head(ds), service_type |-> t.services[Head(ds)][i]]]
         \o ServicesOfDevices(t, Tail(ds))

all_services(t) == ServicesOfDevices(t, all_devices(t))

-----------------------------------------------------------------------------
(* Inbound datagrams.  SsdpProtocol hands _async_on_data the request line  *)
(* and the headers; the headers are held by name (CaseInsensitiveDict),    *)
(* NoHeader standing for a header the datagram does not carry.             *)

Addrs == {"10.0.0.5:40000", "10.0.0.6:40001"}

ManValues == {NoHeader, SSDP_DISCOVER, "ssdp:discover", "\"SSDP:DISCOVER\""}

RequestLines == {M_SEARCH_LINE, NOTIFY_LINE, "M-SEARCH * HTTP/1.0"}

UnknownTarget == <<"u","r","n",":","x">>

Range(s) == {s[i] : i \in 1..Len(s)}

StoredUdns(t) == {t.udn[d] : d \in 1..t.n}
StoredDeviceTypes(t) == {t.device_type[d] : d \in 1..t.n}
StoredServiceTypes(t) == UNION {Range(t.services[d]) : d \in 1..t.n}

\* The ST values a probe may carry: every value of the tree and the two
\* keywords, as stored and upper-cased; an unknown one; none.
SearchTargets(t) ==
    LET stored == {SSDP_ST_ALL, SSDP_ST_ROOTDEVICE} \cup StoredUdns(t)
                    \cup StoredDeviceTypes(t) \cup StoredServiceTypes(t)
    IN  stored \cup {Upper(s) : s \in stored}
           \cup {UnknownTarget, NoST}

Datagram(line, man, st, addr) ==
    [request_line |-> line,
     headers |-> [MAN |-> man, ST |-> st, _remote_addr |-> addr]]

\* Start line and MAN of the datagrams that fail the check of line 261 on
\* one account.
RejectedShapes ==
    {<<line, SSDP_DISCOVER>> : line \in RequestLines \ {M_SEARCH_LINE}}
    \cup {<<M_SEARCH_LINE, man>> : man \in ManValues \ {SSDP_DISCOVER}}

\* Every datagram that passes the check of line 261, and the datagrams that do
\* not, with an ST that would be answered, an ST of another case and no ST.
AllDatagrams(t) ==
    {Datagram(M_SEARCH_LINE, SSDP_DISCOVER, st, addr) :
        st \in SearchTargets(t), addr \in Addrs}
    \cup
    {Datagram(shape[1], shape[2], st, addr) :
        shape \in RejectedShapes,
        st \in {SSDP_ST_ALL, Upper(SSDP_ST_ROOTDEVICE), NoST},
        addr \in {CHOOSE a \in Addrs : TRUE}}

\* The datagrams of a run of the whole event loop: a probe that is answered
\* with several responses, from each address, and one without ST.
LoopDatagrams(t) ==
    {Datagram(M_SEARCH_LINE, SSDP_DISCOVER, SSDP_ST_ALL, addr) : addr \in Addrs}
    \cup
    {Datagram(M_SEARCH_LINE, SSDP_DISCOVER, NoST, CHOOSE a \in Addrs : TRUE)}

\* CaseInsensitiveDict.get(name): None when the header is absent.
HeaderGet(headers, name) == headers[name]

-----------------------------------------------------------------------------
(* SsdpSearchResponder.                                                    *)

\* _async_send_response: the packet and the address given to
\* protocol.send_ssdp_packet.
SendResponseToTarget(dev, remote_addr, service_type, unique_service_name) ==
    [dst |-> MulticastTarget,
     line |-> RESPONSE_LINE,
     headers |-> [ST |-> service_type,
                  USN |-> unique_service_name,
                  LOCATION |-> dev.base_uri \o dev.device_url]]

async_send_response(dev, remote_addr, service_type, unique_service_name) ==
    [dst |-> remote_addr,
     line |-> RESPONSE_LINE,
     headers |-> [ST |-> service_type,
                  USN |-> unique_service_name,
                  LOCATION |-> dev.base_uri \o dev.device_url]]

async_send_response_rootdevice(dev, remote_addr) ==
    async_send_response(dev, remote_addr, RootDeviceLiteral,
                        dev.udn[RootDevice] \o Sep \o RootDeviceLiteral)

async_send_responses_device_udn(dev, remote_addr, d) ==
    async_send_response(dev, remote_addr, dev.udn[d], dev.udn[RootDevice])

SendResponsesDeviceTypeOwnUdn(dev, remote_addr, d) ==
    async_send_response(dev, remote_addr, dev.device_type[d],
                        dev.udn[d] \o Sep \o dev.device_type[d])

async_send_responses_device_type(dev, remote_addr, d) ==
    async_send_response(dev, remote_addr, dev.device_type[d],
                        dev.udn[RootDevice] \o Sep \o dev.device_type[d])

async_send_responses_service(dev, remote_addr, service) ==
    async_send_response(dev, remote_addr, service.service_type,
                        dev.udn[RootDevice] \o Sep \o service.service_type)

MatchedDevicesByUuidNoLower(dev, search_target) ==
    LET Match(d) == dev.udn[d] = search_target
    IN  SelectSeq(all_devices(dev), Match)

matched_devices_by_uuid(dev, search_target) ==
    LET Match(d) == Lower(dev.udn[d]) = search_target
    IN  SelectSeq(all_devices(dev), Match)

matched_devices_by_type(dev, search_target) ==
    LET Match(d) == Lower(dev.device_type[d]) = search_target
    IN  SelectSeq(all_devices(dev), Match)

matched_services_by_type(dev, search_target) ==
    LET Match(s) == Lower(s.service_type) = search_target
    IN  SelectSeq(all_services(dev), Match)

\* A variant of the ssdp:all branch that answers device by device.
RespondAllPerDevice(dev, remote_addr) ==
    LET ds == all_devices(dev)
        svcs == all_services(dev)
    IN  <<async_send_response_rootdevice(dev, remote_addr)>>
        \o [i \in 1..(2 * Len(ds)) |->
              IF i % 2 = 1
              THEN async_send_responses_device_udn(dev, remote_addr, ds[(i + 1) \div 2])
              ELSE async_send_responses_device_type(dev, remote_addr, ds[i \div 2])]
        \o [i \in 1..Len(svcs) |->
              async_send_responses_service(dev, remote_addr, svcs[i])]

\* Lines 279-285: the ssdp:all branch.
RespondAll(dev, remote_addr) ==
    LET ds == all_devices(dev)
        svcs == all_services(dev)
    IN  <<async_send_response_rootdevice(dev, remote_addr)>>
        \o [i \in 1..Len(ds) |->
              async_send_responses_device_udn(dev, remote_addr, ds[i])]
        \o [i \in 1..Len(ds) |->
              async_send_responses_device_type(dev, remote_addr, ds[i])]
        \o [i \in 1..Len(svcs) |->
              async_send_responses_service(dev, remote_addr, svcs[i])]

IsSearchAnyLine(request_line, headers) ==
    HeaderGet(headers, "MAN") = SSDP_DISCOVER

\* Line 261, negated: the datagram is a search to answer.
IsSearch(request_line, headers) ==
    ~(request_line # M_SEARCH_LINE \/ HeaderGet(headers, "MAN") # SSDP_DISCOVER)

\* _async_on_data, lines 261-296: the responses it sends, in order, and
\* whether it ends with an exception (headers["st"] of line 268 raises
\* KeyError when the datagram carries no ST).
async_on_data(dev, request_line, headers) ==
    IF ~IsSearch(request_line, headers)
    THEN [raised |-> FALSE, out |-> <<>>]
    ELSE LET remote_addr == headers["_remote_addr"] IN
         IF headers["ST"] = NoST
         THEN [raised |-> TRUE, out |-> <<>>]
         ELSE LET search_target == Lower(headers["ST"])
                  by_uuid == matched_devices_by_uuid(dev, search_target)
                  by_type == matched_devices_by_type(dev, search_target)
                  services == matched_services_by_type(dev, search_target)
              IN  [raised |-> FALSE,
                   out |->
                     IF search_target = SSDP_ST_ALL
                        THEN RespondAll(dev, remote_addr)
                     ELSE IF search_target = SSDP_ST_ROOTDEVICE
                        THEN <<async_send_response_rootdevice(dev, remote_addr)>>
                     ELSE IF by_uuid # <<>>
                        THEN [i \in 1..Len(by_uuid) |->
                                async_send_responses_device_udn(dev, remote_addr, by_uuid[i])]
                     ELSE IF by_type # <<>>
                        THEN [i \in 1..Len(by_type) |->
                                async_send_responses_device_type(dev, remote_addr, by_type[i])]
                     ELSE IF services # <<>>
                        THEN [i \in 1..Len(services) |->
                                async_send_responses_service(dev, remote_addr, services[i])]
                     ELSE <<>>]

SendsBeforeSuspendOne(out) == IF out = <<>> THEN 0 ELSE 1

\* How many of the sends still to do a task performs before it next yields to
\* the event loop: all of them.  Each "await self._async_send_response..."
\* awaits a coroutine that ends in the plain call of line 407 and never
\* suspends, so the task runs from its first step to its end.
SendsBeforeSuspend(out) == Len(out)

-----------------------------------------------------------------------------
(* SsdpAdvertisementAnnouncer.                                             *)

NTS_ALIVE == "ssdp:alive"

\* base_headers of lines 423-429 with the NT and USN of one slot.
Advertisement(root_device, nt, usn) ==
    [NTS |-> NTS_ALIVE,
     SERVER |-> "async-upnp-client/1.0 UPnP/2.0 DummyServer/1.0",
     BOOTID |-> "1",
     CONFIGID |-> "1",
     LOCATION |-> root_device.base_uri \o root_device.device_url,
     NT |-> nt,
     USN |-> usn]

BuildAdvertisementsNoServices(root_device) ==
    LET ds == all_devices(root_device)
    IN  <<Advertisement(root_device, RootDeviceLiteral,
                        root_device.udn[RootDevice] \o Sep \o RootDeviceLiteral)>>
        \o [i \in 1..(2 * Len(ds)) |->
              IF i % 2 = 1
              THEN LET d == ds[(i + 1) \div 2]
                   IN  Advertisement(root_device, root_device.udn[d], root_device.udn[d])
              ELSE LET d == ds[i \div 2]
                   IN  Advertisement(root_device, root_device.device_type[d],
                          root_device.udn[d] \o Sep \o root_device.device_type[d])]

\* _build_advertisements, lines 410-465.  The loop of lines 440-454 appends
\* two entries per device: the UDN slot, then the device-type slot.
build_advertisements(root_device) ==
    LET ds == all_devices(root_device)
        svcs == all_services(root_device)
    IN  <<Advertisement(root_device, RootDeviceLiteral,
                        root_device.udn[RootDevice] \o Sep \o RootDeviceLiteral)>>
        \o [i \in 1..(2 * Len(ds)) |->
              IF i % 2 = 1
              THEN LET d == ds[(i + 1) \div 2]
                   IN  Advertisement(root_device, root_device.udn[d], root_device.udn[d])
              ELSE LET d == ds[i \div 2]
                   IN  Advertisement(root_device, root_device.device_type[d],
                          root_device.udn[d] \o Sep \o root_device.device_type[d])]
        \o [i \in 1..Len(svcs) |->
              Advertisement(root_device, svcs[i].service_type,
                 root_device.udn[svcs[i].device] \o Sep \o svcs[i].service_type)]

NextAdvertisementIndexStuck(index, n) == index

\* Lines 526-528.
NextAdvertisementIndex(index, n) == (index + 1) % n

\* The packet and the address _announce_next gives to send_ssdp_packet
\* (lines 524-538).
AnnouncePacket(headers) ==
    [dst |-> MulticastTarget, line |-> NOTIFY_LINE, headers |-> headers]

NTS_BYEBYE == "ssdp:byebye"

SendByebyeEverySlot(root_device) ==
    [i \in 1..Len(build_advertisements(root_device)) |->
        [dst |-> MulticastTarget, line |-> NOTIFY_LINE,
         headers |-> [NTS |-> NTS_BYEBYE,
                      SERVER |-> "async-upnp-client/1.0 UPnP/2.0 DummyServer/1.0",
                      NT |-> build_advertisements(root_device)[i].NT,
                      USN |-> build_advertisements(root_device)[i].USN,
                      LOCATION |-> root_device.base_uri \o root_device.device_url]]]

\* _send_byebye, lines 544-566: the packets given to send_ssdp_packet.
send_byebye(root_device) ==
    <<[dst |-> MulticastTarget, line |-> NOTIFY_LINE,
       headers |-> [NTS |-> NTS_BYEBYE,
                    SERVER |-> "async-upnp-client/1.0 UPnP/2.0 DummyServer/1.0",
                    NT |-> RootDeviceLiteral,
                    USN |-> root_device.udn[RootDevice] \o Sep \o RootDeviceLiteral,
                    LOCATION |-> root_device.base_uri \o root_device.device_url]]>>

-----------------------------------------------------------------------------
(* The log of sent datagrams.                                              *)

\* An entry of sent: the packet, who sent it, and for a search response the
\* id of the datagram whose task sent it (0 for the announcer).
Logged(by, probe, m) ==
    [by |-> by, probe |-> probe, dst |-> m.dst, line |-> m.line,
     headers |-> m.headers]

LogAll(by, probe, ms) == [i \in 1..Len(ms) |-> Logged(by, probe, ms[i])]

IsResponse(e) == e.by = "responder"
IsNotify(e) == e.by = "announcer"

Responses == SelectSeq(sent, IsResponse)
Alives == SelectSeq(sent, IsNotify)

\* The responses sent by the task of datagram p, in order.
ResponsesTo(p) ==
    LET Mine(e) == IsResponse(e) /\ e.probe = p
    IN  SelectSeq(sent, Mine)

-----------------------------------------------------------------------------
(* The SOAP action handler (action_handler, lines 735-841).                *)
(*                                                                         *)
(* The SOAPAction header, action names and argument texts are sequences of *)
(* one-character strings, so that strip('"'), split("#"), int() and str()  *)
(* are computed.  Element tags and argument names are only compared for    *)
(* equality and are TLA+ strings.                                          *)

\* Arguments in a request element.
MaxArgs == 2

\* request.headers.get("SOAPAction", ""): the default of a missing header.
NoSoapAction == <<>>

\* Element.text of an element without text.
NoText == <<"<none>">>

\* exception.error_code of an exception made without one (None).
NoErrorCode == -1

\* UpnpActionErrorCode.ACTION_FAILED.value
ACTION_FAILED == 501

\* str.strip(c): c removed from both ends.
RECURSIVE StripLeft(_, _)
StripLeft(s, c) ==
    IF s # <<>> /\ Head(s) = c THEN StripLeft(Tail(s), c) ELSE s

Strip(s, c) == Reverse(StripLeft(Reverse(StripLeft(s, c)), c))

\* str.split(c): the parts between the occurrences of c.
SplitOnce(s, c) ==
    LET hits == {i \in 1..Len(s) : s[i] = c}
    IN  IF hits = {} THEN <<s>>
        ELSE LET i == CHOOSE h \in hits : \A j \in hits : h <= j
             IN  <<SubSeq(s, 1, i - 1), SubSeq(s, i + 1, Len(s))>>

RECURSIVE Split(_, _)
Split(s, c) ==
    LET hits == {i \in 1..Len(s) : s[i] = c}
    IN  IF hits = {} THEN <<s>>
        ELSE LET i == CHOOSE h \in hits : \A j \in hits : h <= j
             IN  <<SubSeq(s, 1, i - 1)>> \o Split(SubSeq(s, i + 1, Len(s)), c)

Digits == <<"0", "1", "2", "3", "4", "5", "6", "7", "8", "9">>

IsDigit(c) == \E d \in 1..Len(Digits) : Digits[d] = c

DigitValue(c) == (CHOOSE d \in 1..Len(Digits) : Digits[d] = c) - 1

\* int(text) of a text made of decimal digits.
RECURSIVE IntOfDigits(_)
IntOfDigits(text) ==
    IF text = <<>> THEN 0
    ELSE 10 * IntOfDigits(SubSeq(text, 1, Len(text) - 1))
            + DigitValue(text[Len(text)])

\* str(n) of a natural number.
RECURSIVE StrOfNat(_)
StrOfNat(n) ==
    IF n < 10 THEN <<Digits[n + 1]>>
    ELSE StrOfNat(n \div 10) \o <<Digits[(n % 10) + 1]>>

\* The service: STATE_VARIABLE_DEFINITIONS and the actions bound by
\* _init_action (in-arguments first, then out-arguments).
StateVariableDefinitions ==
    [Level |-> [data_type |-> "ui2", ranged |-> TRUE, min |-> 0, max |-> 10,
                default_value |-> <<"0">>],
     Name  |-> [data_type |-> "string", ranged |-> FALSE, min |-> 0, max |-> 0,
                default_value |-> <<>>]]

StateVariableNames == {"Level", "Name"}

ActionSetLevel == <<"S","e","t","L","e","v","e","l">>
ActionGetLevel == <<"G","e","t","L","e","v","e","l">>
ActionUnknown == <<"R","e","s","e","t">>

Argument(name, direction, state_variable_name) ==
    [name |-> name, direction |-> direction,
     related_state_variable |-> state_variable_name]

\* service.actions: action name -> the arguments of the action.
ServiceActions ==
    [name \in {ActionSetLevel, ActionGetLevel} |->
        IF name = ActionSetLevel
        THEN <<Argument("NewLevel", "in", "Level"),
               Argument("NewName", "in", "Name"),
               Argument("OldLevel", "out", "Level")>>
        ELSE <<Argument("CurrentLevel", "out", "Level")>>]

\* The values of the state variables of a new service (line 112).
DefaultStateVariables == [Level |-> 0, Name |-> <<>>]

\* The parse of a text as a value of the data type: int() for ui2, which
\* fails on a text that is not a number, the text itself for string.
CoerceAs(data_type, text) ==
    IF data_type = "ui2"
    THEN IF text # <<>> /\ \A i \in 1..Len(text) : IsDigit(text[i])
         THEN [raised |-> FALSE, value |-> IntOfDigits(text)]
         ELSE [raised |-> TRUE, value |-> 0]
    ELSE [raised |-> FALSE, value |-> text]

\* UpnpStateVariable.coerce_python: the text parsed to the python type.
CoercePython(state_variable_name, text) ==
    CoerceAs(StateVariableDefinitions[state_variable_name].data_type, text)

\* UpnpStateVariable.upnp_value: the value rendered as text.
UpnpValue(state_variable_name, value) ==
    IF StateVariableDefinitions[state_variable_name].data_type = "ui2"
    THEN StrOfNat(value)
    ELSE value

\* Exceptions: the class, and the error_code of a UpnpActionError.
Exception(type, error_code) == [type |-> type, error_code |-> error_code]

NoException == Exception("None", NoErrorCode)

\* An XML element: tag, text and child elements.
Element(tag, text, children) ==
    [tag |-> tag, text |-> text, children |-> children]

\* A body DET.fromstring cannot parse.
NotXml == Element("<not xml>", NoText, <<>>)

\* Element.find(tag): the position of the first child with that tag, 0 for
\* None.
Find(el, tag) ==
    LET hits == {i \in 1..Len(el.children) : el.children[i].tag = tag}
    IN  IF hits = {} THEN 0
        ELSE CHOOSE i \in hits : \A j \in hits : i <= j

InArgumentAnyDirection(arguments, name) ==
    LET hits == {i \in 1..Len(arguments) : arguments[i].name = name}
    IN  IF hits = {} THEN 0
        ELSE CHOOSE i \in hits : \A j \in hits : i <= j

\* UpnpAction.argument(name, direction): the position of the argument among
\* the action's arguments, 0 for None.
ActionArgument(arguments, name, direction) ==
    LET hits == {i \in 1..Len(arguments) :
                    /\ arguments[i].name = name
                    /\ arguments[i].direction = direction}
    IN  IF hits = {} THEN 0
        ELSE CHOOSE i \in hits : \A j \in hits : i <= j

\* action.argument(arg.tag, direction="in") of line 757: the in-argument of
\* that name, 0 for None.
InArgument(arguments, name) == ActionArgument(arguments, name, "in")

\* What _parse_action_body and action_handler end with.
ParseResult(reason, exception, action_name, kwargs) ==
    [reason |-> reason, exception |-> exception, action_name |-> action_name,
     kwargs |-> kwargs]

NoKwargs == [n \in {} |-> 0]

StoreArgumentAlone(kwargs, name, value) == [n \in {name} |-> value]

\* kwargs[arg.tag] = value of line 761.
StoreArgument(kwargs, name, value) ==
    [n \in DOMAIN kwargs \cup {name} |-> IF n = name THEN value ELSE kwargs[n]]

\* The loop of lines 756-761 over the children of the request element, from
\* child i on.
RECURSIVE ParseArguments(_, _, _, _, _)
ParseArguments(action_name, arguments, children, i, kwargs) ==
    IF i > Len(children) THEN ParseResult("", NoException, action_name, kwargs)
    ELSE LET arg == children[i]
             a == InArgument(arguments, arg.tag)
         IN  IF a = 0
             THEN ParseResult("InvalidActionArgument", NoException,
                              action_name, kwargs)
             ELSE LET text == IF arg.text = NoText THEN <<>> ELSE arg.text
                      c == CoercePython(arguments[a].related_state_variable, text)
                  IN  IF c.raised
                      THEN ParseResult("", Exception("ValueError", NoErrorCode),
                                       action_name, kwargs)
                      ELSE ParseArguments(action_name, arguments, children, i + 1,
                              StoreArgument(kwargs, arg.tag, c.value))

\* The try block of lines 741-749 leaves without an exception.
SoapParses(parts, body) ==
    /\ Len(parts) = 2
    /\ body # NotXml
    /\ Find(body, "s:Body") # 0
    /\ body.children[Find(body, "s:Body")].children # <<>>

\* _parse_action_body, lines 735-763.
parse_action_body(actions, req) ==
    LET soap_action == Strip(req.soap_action, "\"")
        parts == Split(soap_action, "#")
    IN  IF ~SoapParses(parts, req.body)
        THEN ParseResult("InvalidSoap", NoException, <<>>, NoKwargs)
        ELSE LET action_name == parts[2]
                 body_el == req.body.children[Find(req.body, "s:Body")]
                 rpc_el == body_el.children[1]
             IN  IF action_name \notin DOMAIN actions
                 THEN ParseResult("InvalidAction", NoException, action_name,
                                  NoKwargs)
                 ELSE ParseArguments(action_name, actions[action_name],
                                     rpc_el.children, 1, NoKwargs)

\* UpnpAction.validate_arguments: every in-argument is given and its value
\* is within the range of its state variable; the first failure, in the
\* order of the arguments.
RECURSIVE ValidateArguments(_, _, _)
ValidateArguments(arguments, i, kwargs) ==
    IF i > Len(arguments) THEN NoException
    ELSE IF arguments[i].direction # "in"
    THEN ValidateArguments(arguments, i + 1, kwargs)
    ELSE IF arguments[i].name \notin DOMAIN kwargs
    THEN Exception("UpnpError", NoErrorCode)
    ELSE LET def == StateVariableDefinitions[arguments[i].related_state_variable]
             value == kwargs[arguments[i].name]
         IN  IF def.ranged /\ (value < def.min \/ value > def.max)
             THEN Exception("UpnpValueError", NoErrorCode)
             ELSE ValidateArguments(arguments, i + 1, kwargs)

\* What the bound handler, which is user code, does with a call: it returns,
\* or it raises.
HandlerBehaviours ==
    {Exception("None", NoErrorCode),
     Exception("UpnpActionError", NoErrorCode),
     Exception("UpnpActionError", 0),
     Exception("UpnpActionError", 718),
     Exception("UpnpValueError", NoErrorCode),
     Exception("RuntimeError", NoErrorCode)}

\* The handlers of the service when they return: SetLevel stores its
\* arguments and returns OldLevel, GetLevel returns CurrentLevel; both name
\* the state variable Level.
HandlerStores(action_name, kwargs, values) ==
    IF action_name = ActionSetLevel
    THEN [values EXCEPT !.Level = kwargs["NewLevel"], !.Name = kwargs["NewName"]]
    ELSE values

HandlerReturns(action_name) ==
    IF action_name = ActionSetLevel
    THEN <<[key |-> "OldLevel", state_variable |-> "Level"]>>
    ELSE <<[key |-> "CurrentLevel", state_variable |-> "Level"]>>

AsyncHandleActionCallsFirst(actions, action_name, kwargs, behaviour, values) ==
    LET invalid == ValidateArguments(actions[action_name], 1, kwargs)
    IN  IF behaviour # NoException
        THEN [exception |-> behaviour, invoked |-> 1, kwargs |-> kwargs,
              values |-> values, call_result |-> <<>>]
        ELSE IF invalid # NoException
        THEN [exception |-> invalid, invoked |-> 1, kwargs |-> kwargs,
              values |-> values, call_result |-> <<>>]
        ELSE [exception |-> NoException, invoked |-> 1, kwargs |-> kwargs,
              values |-> HandlerStores(action_name, kwargs, values),
              call_result |-> HandlerReturns(action_name)]

\* UpnpServerService.async_handle_action, lines 201-205.
async_handle_action(actions, action_name, kwargs, behaviour, values) ==
    LET invalid == ValidateArguments(actions[action_name], 1, kwargs)
    IN  IF invalid # NoException
        THEN [exception |-> invalid, invoked |-> 0, kwargs |-> NoKwargs,
              values |-> values, call_result |-> <<>>]
        ELSE IF behaviour # NoException
        THEN [exception |-> behaviour, invoked |-> 1, kwargs |-> kwargs,
              values |-> values, call_result |-> <<>>]
        ELSE [exception |-> NoException, invoked |-> 1, kwargs |-> kwargs,
              values |-> HandlerStores(action_name, kwargs, values),
              call_result |-> HandlerReturns(action_name)]

\* Answers.  A raised HTTPBadRequest is the 400 response with its reason; any
\* other exception that leaves action_handler is kept as it is.  The
\* exception field is the exception a fault was made from, or the one that
\* left action_handler.
NoFault ==
    [faultcode |-> "", faultstring |-> "", errorCode |-> <<>>,
     errorDescription |-> ""]

\* The element under s:Body of a response that is not a success.
NoElement == [tag |-> <<>>, xmlns |-> <<>>]

Answer(kind, status, reason, fault, result, exception) ==
    [kind |-> kind, status |-> status, reason |-> reason, fault |-> fault,
     element |-> NoElement, result |-> result, exception |-> exception,
     description |-> NotXml]

NoResponse == Answer("none", 0, "", NoFault, <<>>, NoException)

HTTPBadRequestInvalidSoap(reason) ==
    Answer("http_error", 400, "InvalidSoap", NoFault, <<>>, NoException)

HTTPBadRequest(reason) ==
    Answer("http_error", 400, reason, NoFault, <<>>, NoException)

Escaped(exception) == Answer("exception", 0, "", NoFault, <<>>, exception)

ErrorCodeZeroKept(exception) ==
    IF exception.type = "UpnpActionError"
    THEN IF exception.error_code # NoErrorCode
         THEN exception.error_code
         ELSE ACTION_FAILED
    ELSE IF exception.type = "UpnpValueError" THEN 402
    ELSE 501

\* The error_code expression of lines 809-815.
ErrorCode(exception) ==
    IF exception.type = "UpnpActionError"
    THEN IF exception.error_code # NoErrorCode /\ exception.error_code # 0
         THEN exception.error_code
         ELSE ACTION_FAILED
    ELSE IF exception.type = "UpnpValueError" THEN 402
    ELSE 501

\* _create_error_action_response, lines 792-826.
create_error_action_response(exception) ==
    Answer("fault", 500, "",
           [faultcode |-> "s:Client", faultstring |-> "UPnPError",
            errorCode |-> StrOfNat(ErrorCode(exception)),
            errorDescription |-> "Action Failed"],
           <<>>, exception)

\* service.service_type of the service the control URL belongs to.
ControlNamespace == ServiceTypeSeq[1]

\* f"st:{action_name}Response" of line 779.
ResponseTag(action_name) ==
    <<"s","t",":">> \o action_name \o <<"R","e","s","p","o","n","s","e">>

\* _create_action_response, lines 766-789: the element st:<action>Response
\* with xmlns:st the service type, and in it one element per entry of the
\* result, with the upnp_value of the state variable.
create_action_response(action_name, call_result, values) ==
    [Answer("response", 200, "", NoFault,
            [i \in 1..Len(call_result) |->
                [key |-> call_result[i].key,
                 text |-> UpnpValue(call_result[i].state_variable,
                                    values[call_result[i].state_variable])]],
            NoException)
     EXCEPT !.element = [tag |-> ResponseTag(action_name),
                         xmlns |-> ControlNamespace]]

\* The exceptions the try of lines 833-839 catches.
Caught(exception) == exception.type \in {"UpnpValueError", "UpnpActionError"}

\* action_handler, lines 829-841: the answer, the calls of the handler, the
\* keyword arguments it was called with and the values of the state
\* variables after it.
action_handler(actions, req, behaviour, values) ==
    LET parsed == parse_action_body(actions, req)
    IN  IF parsed.reason # ""
        THEN [response |-> HTTPBadRequest(parsed.reason), invoked |-> 0,
              kwargs |-> NoKwargs, values |-> values]
        ELSE IF parsed.exception # NoException
        THEN [response |-> Escaped(parsed.exception), invoked |-> 0,
              kwargs |-> NoKwargs, values |-> values]
        ELSE LET call == async_handle_action(actions, parsed.action_name,
                                             parsed.kwargs, behaviour, values)
             IN  IF call.exception = NoException
                 THEN [response |-> create_action_response(parsed.action_name,
                                        call.call_result, call.values),
                       invoked |-> call.invoked, kwargs |-> call.kwargs,
                       values |-> call.values]
                 ELSE IF Caught(call.exception)
                 THEN [response |-> create_error_action_response(call.exception),
                       invoked |-> call.invoked, kwargs |-> call.kwargs,
                       values |-> call.values]
                 ELSE [response |-> Escaped(call.exception),
                       invoked |-> call.invoked, kwargs |-> call.kwargs,
                       values |-> call.values]

\* Control POSTs.
Request(soap_action, body) ==
    [method |-> "POST", path |-> "control_url", soap_action |-> soap_action,
     body |-> body]

NoRequest ==
    [method |-> "none", path |-> "", soap_action |-> NoSoapAction,
     body |-> NotXml]

\* Requests for the other routes of lines 906-920: GET of the device
\* description and of the service description, SUBSCRIBE.
OtherRequest(method, path) ==
    [method |-> method, path |-> path, soap_action |-> NoSoapAction,
     body |-> NotXml]

OtherRequests ==
    {OtherRequest("GET", "device_url"), OtherRequest("GET", "scpd_url"),
     OtherRequest("SUBSCRIBE", "event_sub_url")}

Quoted(s) == <<"\"">> \o s \o <<"\"">>

\* SOAPAction headers: missing; naming each action and an unknown one, in
\* quotes and without; without "#"; with two "#".
SoapActions ==
    {NoSoapAction}
    \cup {Quoted(ControlNamespace \o <<"#">> \o name) :
            name \in {ActionSetLevel, ActionGetLevel, ActionUnknown}}
    \cup {ControlNamespace \o <<"#">> \o ActionSetLevel,
          Quoted(<<"#">> \o ActionSetLevel)}
    \cup {Quoted(name) : name \in {ActionSetLevel, ActionUnknown}}
    \cup {Quoted(ControlNamespace \o <<"#", "#">> \o name) :
            name \in {ActionSetLevel, ActionUnknown}}

\* Children of a request element: in-arguments with a text that is in range,
\* out of range, not a number, or none; an out-argument; an unknown name.
ArgumentElements ==
    {Element("NewLevel", text, <<>>) :
        text \in {<<"5">>, <<"5", "0">>, <<"x">>, NoText}}
    \cup {Element("NewName", text, <<>>) : text \in {<<"x">>, NoText}}
    \cup {Element("OldLevel", <<"5">>, <<>>), Element("Bogus", <<"5">>, <<>>)}

ArgumentLists(maxArgs) ==
    UNION {[1..n -> ArgumentElements] : n \in 0..maxArgs}

Envelope(children) == Element("s:Envelope", NoText, children)

\* Children that give NewLevel twice, with NewName after them.
RepeatedArguments ==
    {<<Element("NewLevel", a, <<>>), Element("NewLevel", b, <<>>),
       Element("NewName", <<"x">>, <<>>)>> :
        a \in {<<"5">>, <<"5", "0">>}, b \in {<<"5">>, <<"5", "0">>}}

\* Bodies: not XML; an envelope without s:Body; with an empty s:Body; with a
\* request element, after an s:Header or not; with an in-argument given
\* twice.
Bodies(maxArgs) ==
    {NotXml,
     Envelope(<<>>),
     Envelope(<<Element("s:Header", NoText, <<>>)>>),
     Envelope(<<Element("s:Body", NoText, <<>>)>>),
     Envelope(<<Element("s:Header", NoText, <<>>),
                Element("s:Body", NoText,
                        <<Element("u:GetLevel", NoText, <<>>)>>)>>)}
    \cup {Envelope(<<Element("s:Body", NoText,
                             <<Element("u:SetLevel", NoText, args)>>)>>) :
            args \in ArgumentLists(maxArgs) \cup RepeatedArguments}

Requests(maxArgs) ==
    {Request(soap_action, body) :
        soap_action \in SoapActions, body \in Bodies(maxArgs)}

\* Some control POSTs: SetLevel with good arguments, SetLevel with an unknown
\* argument, an unknown action, no SOAPAction and no XML.
SomePosts ==
    {Request(Quoted(ControlNamespace \o <<"#">> \o ActionSetLevel),
             Envelope(<<Element("s:Body", NoText,
                          <<Element("u:SetLevel", NoText, args)>>)>>)) :
        args \in {<<Element("NewLevel", <<"5">>, <<>>),
                    Element("NewName", <<"x">>, <<>>)>>,
                  <<Element("Bogus", <<"5">>, <<>>)>>}}
    \cup {Request(Quoted(ControlNamespace \o <<"#">> \o ActionUnknown),
                  Envelope(<<Element("s:Body", NoText,
                               <<Element("u:Reset", NoText, <<>>)>>)>>)),
          Request(NoSoapAction, NotXml)}

\* Values the state variables of the service can have when a POST arrives.
ServiceStates == {DefaultStateVariables, [Level |-> 5, Name |-> <<"x">>]}

-----------------------------------------------------------------------------
(* Construction of a service: UpnpServerService.__init__.                  *)

\* StateVariableTypeInfo.default_value of a definition without default.
NoDefault == <<"<none>">>

\* A service class: STATE_VARIABLE_DEFINITIONS as the sequence of the items
\* of the mapping, and the methods that carry __upnp_action__, in the order
\* of dir().
ServiceClass(state_variable_definitions, methods) ==
    [state_variable_definitions |-> state_variable_definitions,
     methods |-> methods]

\* An item of STATE_VARIABLE_DEFINITIONS.
TypeInfo(name, data_type, default_value) ==
    [name |-> name, data_type |-> data_type, default_value |-> default_value]

\* A method decorated with callable_action(name, in_args, out_args): the
\* two mappings as sequences of items, and the __annotations__ of the
\* function (parameter name -> python type).
Method(name, in_args, out_args, annotations) ==
    [name |-> name, in_args |-> in_args, out_args |-> out_args,
     annotations |-> annotations]

ArgItem(arg_name, state_var_name) ==
    [arg_name |-> arg_name, state_var_name |-> state_var_name]

\* data_type_mapping["type"]: the python type of a UPnP data type.
PythonType(data_type) == IF data_type = "ui2" THEN "int" ELSE "str"

\* service.state_variables and service.actions of a service without any.
NoStateVariables == [n \in {} |-> 0]
NoInfos == [n \in {} |-> 0]
NoActions == [n \in {} |-> <<>>]

\* The UpnpStateVariable made by lines 115-127: its type, send_events, and
\* whether upnp_value was set from a default.
StateVarInfo(type_info) ==
    [data_type |-> type_info.data_type, send_events |-> FALSE,
     has_value |-> type_info.default_value # NoDefault]

\* The value of a new state variable: the default parsed to the python
\* type (line 129), or nothing (shown as the zero of the type).
InitialValue(type_info) ==
    IF type_info.default_value = NoDefault
    THEN (IF type_info.data_type = "ui2" THEN 0 ELSE <<>>)
    ELSE CoerceAs(type_info.data_type, type_info.default_value).value

Extended(f, name, value) ==
    [n \in DOMAIN f \cup {name} |-> IF n = name THEN value ELSE f[n]]

CreateStateVarOverwrites(infos, values, type_info) ==
    [exception |-> NoException,
     infos  |-> Extended(infos, type_info.name, StateVarInfo(type_info)),
     values |-> Extended(values, type_info.name, InitialValue(type_info))]

\* create_state_var, lines 108-132.
create_state_var(infos, values, type_info) ==
    IF type_info.name \in DOMAIN infos
    THEN [exception |-> Exception("UpnpError", NoErrorCode),
          infos |-> infos, values |-> values]
    ELSE [exception |-> NoException,
          infos  |-> Extended(infos, type_info.name, StateVarInfo(type_info)),
          values |-> Extended(values, type_info.name, InitialValue(type_info))]

\* _init_state_variables, lines 103-106: create_state_var for each item,
\* from item i on.
RECURSIVE init_state_variables(_, _, _, _)
init_state_variables(definitions, i, infos, values) ==
    IF i > Len(definitions)
    THEN [exception |-> NoException, infos |-> infos, values |-> values]
    ELSE LET made == create_state_var(infos, values, definitions[i])
         IN  IF made.exception # NoException THEN made
             ELSE init_state_variables(definitions, i + 1, made.infos,
                                       made.values)

InArgumentUnchecked(infos, annotations, item) ==
    IF item.state_var_name \notin DOMAIN infos
    THEN Exception("KeyError", NoErrorCode)
    ELSE NoException

\* The body of the loop of lines 155-174 for one in-argument: the exception
\* it ends with, if any.
InArgumentCheck(infos, annotations, item) ==
    IF item.arg_name \notin DOMAIN annotations
    THEN Exception("AssertionError", NoErrorCode)
    ELSE IF item.state_var_name \notin DOMAIN infos
    THEN Exception("KeyError", NoErrorCode)
    ELSE IF PythonType(infos[item.state_var_name].data_type)
                # annotations[item.arg_name]
    THEN Exception("AssertionError", NoErrorCode)
    ELSE NoException

\* The body of the loop of lines 176-188 for one out-argument.
OutArgumentCheck(infos, item) ==
    IF item.state_var_name \notin DOMAIN infos
    THEN Exception("KeyError", NoErrorCode)
    ELSE NoException

\* The first exception of the checks of a sequence of items.
RECURSIVE FirstException(_)
FirstException(exceptions) ==
    IF exceptions = <<>> THEN NoException
    ELSE IF Head(exceptions) # NoException THEN Head(exceptions)
    ELSE FirstException(Tail(exceptions))

\* _init_action, lines 146-199: the arguments of the action, in-arguments
\* first, or the exception that ends it.
init_action(infos, method) ==
    LET checks ==
            [i \in 1..Len(method.in_args) |->
                InArgumentCheck(infos, method.annotations, method.in_args[i])]
            \o [i \in 1..Len(method.out_args) |->
                    OutArgumentCheck(infos, method.out_args[i])]
        arguments ==
            [i \in 1..Len(method.in_args) |->
                Argument(method.in_args[i].arg_name, "in",
                         method.in_args[i].state_var_name)]
            \o [i \in 1..Len(method.out_args) |->
                    Argument(method.out_args[i].arg_name, "out",
                             method.out_args[i].state_var_name)]
    IN  [exception |-> FirstException(checks), arguments |-> arguments]

\* _init_actions, lines 134-144: _init_action for each method, from method
\* i on.
RECURSIVE init_actions(_, _, _, _)
init_actions(infos, methods, i, actions) ==
    IF i > Len(methods)
    THEN [exception |-> NoException, actions |-> actions]
    ELSE LET made == init_action(infos, methods[i])
         IN  IF made.exception # NoException
             THEN [exception |-> made.exception, actions |-> actions]
             ELSE init_actions(infos, methods, i + 1,
                               Extended(actions, methods[i].name,
                                        made.arguments))

\* UpnpServerService.__init__, lines 96-101.
service_init(class) ==
    LET vars0 == init_state_variables(class.state_variable_definitions, 1,
                                      NoInfos, NoStateVariables)
        acts == init_actions(vars0.infos, class.methods, 1, NoActions)
    IN  IF vars0.exception # NoException
        THEN [exception |-> vars0.exception, infos |-> NoInfos,
              values |-> NoStateVariables, actions |-> NoActions]
        ELSE IF acts.exception # NoException
        THEN [exception |-> acts.exception, infos |-> NoInfos,
              values |-> NoStateVariables, actions |-> NoActions]
        ELSE [exception |-> NoException, infos |-> vars0.infos,
              values |-> vars0.values, actions |-> acts.actions]

\* The service of the control URL: the class behind StateVariableDefinitions
\* and ServiceActions.
DimService ==
    ServiceClass(
        <<TypeInfo("Level", "ui2", <<"0">>), TypeInfo("Name", "string", <<>>)>>,
        <<Method(ActionGetLevel, <<>>, <<ArgItem("CurrentLevel", "Level")>>,
                 [n \in {} |-> ""]),
          Method(ActionSetLevel,
                 <<ArgItem("NewLevel", "Level"), ArgItem("NewName", "Name")>>,
                 <<ArgItem("OldLevel", "Level")>>,
                 [NewLevel |-> "int", NewName |-> "str"])>>)

-----------------------------------------------------------------------------
(* UpnpXmlSerializer and the handlers of the other routes.  Of a device the *)
(* model has the type, the UDN, the services and the embedded devices; an   *)
(* attribute is shown as a child whose tag starts with "@".  Texts that are *)
(* names of arguments and state variables are TLA+ strings.                 *)

\* A leaf element.
Leaf(tag, text) == Element(tag, text, <<>>)

\* The service elements of lines 618-625.
ServiceListXml(service_types) ==
    [i \in 1..Len(service_types) |->
        Element("service", NoText, <<Leaf("serviceType", service_types[i])>>)]

\* _device_to_xml_bare, lines 598-637.
RECURSIVE device_to_xml_bare(_, _), DeviceListXml(_, _)
device_to_xml_bare(t, d) ==
    Element("device", NoText,
            <<Leaf("deviceType", t.device_type[d]),
              Leaf("UDN", t.udn[d]),
              Element("serviceList", NoText, ServiceListXml(t.services[d])),
              Element("deviceList", NoText, DeviceListXml(t, t.embedded[d]))>>)

DeviceListXml(t, ds) ==
    IF ds = <<>> THEN <<>>
    ELSE <<device_to_xml_bare(t, Head(ds))>> \o DeviceListXml(t, Tail(ds))

\* The specVersion element of lines 588-590 and 643-645.
SpecVersionXml ==
    Element("specVersion", NoText,
            <<Leaf("major", <<"1">>), Leaf("minor", <<"0">>)>>)

\* _device_to_xml, lines 585-595.
device_to_xml(t) ==
    Element("root", NoText, <<SpecVersionXml, device_to_xml_bare(t, RootDevice)>>)

\* _action_argument_to_xml, lines 677-685.
action_argument_to_xml(argument) ==
    Element("argument", NoText,
            <<Leaf("name", argument.name),
              Leaf("direction", argument.direction),
              Leaf("relatedStateVariable", argument.related_state_variable)>>)

\* The arguments of one direction, in their order.
RECURSIVE ArgumentsOf(_, _)
ArgumentsOf(arguments, direction) ==
    IF arguments = <<>> THEN <<>>
    ELSE (IF Head(arguments).direction = direction
          THEN <<Head(arguments)>> ELSE <<>>)
         \o ArgumentsOf(Tail(arguments), direction)

\* _action_to_xml, lines 660-674: in-arguments, then out-arguments.
action_to_xml(name, arguments) ==
    LET ordered == ArgumentsOf(arguments, "in") \o ArgumentsOf(arguments, "out")
    IN  Element("action", NoText,
                <<Leaf("name", name)>>
                \o (IF arguments = <<>> THEN <<>>
                    ELSE <<Element("argumentList", NoText,
                             [i \in 1..Len(ordered) |->
                                 action_argument_to_xml(ordered[i])])>>))

\* _state_variable_to_xml, lines 688-715, for the variable of a definition.
state_variable_to_xml(info, type_info) ==
    Element("stateVariable", NoText,
            <<Leaf("@sendEvents", IF info.send_events THEN "yes" ELSE "no"),
              Leaf("name", type_info.name),
              Leaf("dataType", info.data_type)>>
            \o (IF type_info.default_value # NoDefault
                THEN <<Leaf("defaultValue", type_info.default_value)>>
                ELSE <<>>))

\* _service_to_xml, lines 640-657: the actions and the state variables in
\* the order of the dicts, which is the order in which they were made.
service_to_xml(class, infos, actions) ==
    Element("scpd", NoText,
            <<SpecVersionXml,
              Element("actionList", NoText,
                      [i \in 1..Len(class.methods) |->
                          action_to_xml(class.methods[i].name,
                                        actions[class.methods[i].name])]),
              Element("serviceStateTable", NoText,
                      [i \in 1..Len(class.state_variable_definitions) |->
                          state_variable_to_xml(
                              infos[class.state_variable_definitions[i].name],
                              class.state_variable_definitions[i])])>>)

\* to_xml, lines 849-857: the description in a 200 response.
to_xml(description) ==
    [Answer("response", 200, "", NoFault, <<>>, NoException)
     EXCEPT !.description = description]

\* subscribe_handler, lines 844-846.
subscribe_handler == Answer("response", 404, "", NoFault, <<>>, NoException)

\* Service classes: definitions of Level and Name, each present or not, with
\* either type and with or without default; SetLevel bound with its
\* in-arguments related to a state variable that is defined, or to one of
\* the other type, or to none, and annotated int, str or not at all; the
\* out-arguments related to a state variable that is defined or not.
LevelInfos ==
    {TypeInfo("Level", "ui2", <<"0">>), TypeInfo("Level", "ui2", NoDefault),
     TypeInfo("Level", "string", <<>>)}

NameInfos ==
    {TypeInfo("Name", "string", <<"x">>), TypeInfo("Name", "ui2", <<"7">>)}

DefinitionLists ==
    {<<>>}
    \cup {<<l>> : l \in LevelInfos}
    \cup {<<n>> : n \in NameInfos}
    \cup {<<l, n>> : l \in LevelInfos, n \in NameInfos}

InItems(arg_name) ==
    {ArgItem(arg_name, sv) : sv \in {"Level", "Name", "Missing"}}

InArgLists ==
    {<<>>}
    \cup {<<a>> : a \in InItems("NewLevel")}
    \cup {<<a, b>> : a \in InItems("NewLevel"), b \in InItems("NewName")}

OutArgLists ==
    {<<>>} \cup {<<ArgItem("OldLevel", sv)>> : sv \in {"Level", "Missing"}}

AnnotationSets ==
    UNION {[names -> {"int", "str"}] : names \in SUBSET {"NewLevel", "NewName"}}

SetLevelMethods ==
    {Method(ActionSetLevel, i, o, a) :
        i \in InArgLists, o \in OutArgLists, a \in AnnotationSets}

GetLevelMethods ==
    {Method(ActionGetLevel, <<>>, <<ArgItem("CurrentLevel", sv)>>,
            [n \in {} |-> ""]) : sv \in {"Level", "Missing"}}

MethodLists ==
    {<<>>}
    \cup {<<m>> : m \in SetLevelMethods}
    \cup {<<g, m>> : g \in GetLevelMethods, m \in SetLevelMethods}

ServiceClasses ==
    {ServiceClass(d, m) : d \in DefinitionLists, m \in MethodLists}

\* Calls of create_state_var on a built service: a name that may exist and
\* one that does not, either type, with or without default.
CallTypeInfos ==
    {TypeInfo(n, "ui2", <<"7">>) : n \in {"Level", "Extra"}}
    \cup {TypeInfo(n, "ui2", NoDefault) : n \in {"Level", "Extra"}}
    \cup {TypeInfo(n, "string", <<"x">>) : n \in {"Level", "Extra"}}

-----------------------------------------------------------------------------
(* Actions.                                                                *)

\* UpnpServer._site before _async_start_http_server.
NoSite == "None"

\* The SSDP components before _async_start_ssdp, on one of the trees.
SsdpAtRest(trees) ==
    /\ device \in trees
    /\ respTransport = NoTransport
    /\ annTransport = NoTransport
    /\ advertisements = <<>>
    /\ advIndex = 0
    /\ timerPending = FALSE
    /\ received = <<>>
    /\ ready = <<>>
    /\ callbacks = <<>>
    /\ reading = FALSE
    /\ done = {}
    /\ raised = {}
    /\ sent = <<>>

\* No call of create_state_var has been made.
NoCall == [type_info |-> TypeInfo("", "", NoDefault), exception |-> NoException]

\* The service is built from DimService and no control POST has been
\* received.
HttpAtRest ==
    /\ request = NoRequest
    /\ response = NoResponse
    /\ invoked = 0
    /\ called_with = NoKwargs
    /\ state_variables = DefaultStateVariables
    /\ service_class = DimService
    /\ state_var_infos = service_init(DimService).infos
    /\ service_actions = ServiceActions
    /\ created = NoCall


\* The service class is chosen, its service is not made yet, no control POST
\* has been received.
ServiceNotBuilt(class) ==
    /\ request = NoRequest
    /\ response = NoResponse
    /\ invoked = 0
    /\ called_with = NoKwargs
    /\ state_variables = NoStateVariables
    /\ service_class = class
    /\ state_var_infos = NoInfos
    /\ service_actions = NoActions
    /\ created = NoCall

\* The state at the entry of UpnpServer._async_start_ssdp: the device tree is
\* built, neither SSDP component exists yet.
InitWith(trees) ==
    /\ SsdpAtRest(trees)
    /\ pc = "start_ssdp"
    /\ site = "listening"
    /\ HttpAtRest

\* _async_start_ssdp, lines 943-948: both constructors (lines 238-247 and
\* 471-483).
ConstructSsdp ==
    /\ pc = "start_ssdp"
    /\ pc' = "constructed"
    /\ respTransport' = NoTransport
    /\ annTransport' = NoTransport
    /\ advertisements' = build_advertisements(device)
    /\ advIndex' = 0
    /\ UNCHANGED <<device, callbacks, reading, timerPending, received, ready, done, raised, sent>>
    /\ UNCHANGED httpVars

\* SsdpSearchResponder.async_start (line 950, lines 322-340):
\* create_datagram_endpoint returns after _async_on_connect has stored the
\* transport.
ResponderAsyncStart ==
    /\ pc = "constructed"
    /\ pc' = "responder_started"
    /\ respTransport' = "open"
    /\ UNCHANGED <<device, callbacks, reading, annTransport, advertisements, advIndex, timerPending,
                   received, ready, done, raised, sent>>
    /\ UNCHANGED httpVars

\* _announce_next, lines 520-542.
AnnounceNext ==
    /\ annTransport' # NoTransport
    /\ sent' = Append(sent, Logged("announcer", 0,
                        AnnouncePacket(advertisements[advIndex + 1])))
    /\ advIndex' = NextAdvertisementIndex(advIndex, Len(advertisements))
    /\ timerPending' = TRUE

\* SsdpAdvertisementAnnouncer.async_start (line 951, lines 489-509).
AnnouncerAsyncStart ==
    /\ pc = "responder_started"
    /\ pc' = "running"
    /\ annTransport' = "open"
    /\ AnnounceNext
    /\ UNCHANGED <<device, callbacks, reading, respTransport, advertisements, received, ready, done,
                   raised>>
    /\ UNCHANGED httpVars

\* The timer of line 542 fires: the loop calls _announce_next.
AnnounceTick(maxAlive) ==
    /\ timerPending
    /\ Len(Alives) < maxAlive
    /\ annTransport' = annTransport
    /\ AnnounceNext
    /\ UNCHANGED <<device, callbacks, reading, pc, respTransport, advertisements, received, ready,
                   done, raised>>
    /\ UNCHANGED httpVars

\* SsdpProtocol.datagram_received: a datagram arrives on the responder's
\* socket and the loop is given a task that runs _async_on_data on it.
DatagramReceived(datagrams, maxDatagrams) ==
    /\ respTransport = "open"
    /\ Len(received) < maxDatagrams
    /\ \E dg \in datagrams :
          /\ received' = Append(received,
                [request_line |-> dg.request_line, headers |-> dg.headers,
                 at |-> Len(sent)])
          /\ ready' = Append(ready,
                [id |-> Len(received) + 1, started |-> FALSE, pending |-> <<>>])
    /\ UNCHANGED <<device, callbacks, reading, pc, respTransport, annTransport, advertisements,
                   advIndex, timerPending, done, raised, sent>>
    /\ UNCHANGED httpVars

\* The same, for a datagram that arrives while the loop has no task waiting;
\* the history restarts with it.
DatagramReceivedWhenIdle(datagrams) ==
    /\ respTransport = "open"
    /\ ready = <<>>
    /\ \E dg \in datagrams :
          /\ received' = <<[request_line |-> dg.request_line,
                            headers |-> dg.headers, at |-> 0]>>
          /\ ready' = <<[id |-> 1, started |-> FALSE, pending |-> <<>>]>>
    /\ done' = {}
    /\ raised' = {}
    /\ sent' = <<>>
    /\ UNCHANGED <<device, callbacks, reading, pc, respTransport, annTransport, advertisements,
                   advIndex, timerPending>>
    /\ UNCHANGED httpVars

\* The loop runs the task at the head of its queue up to the task's next
\* suspension point, or to its end (_async_on_data, lines 253-296).
RunTask ==
    /\ ready # <<>>
    /\ respTransport # NoTransport
    /\ LET t == Head(ready)
           dg == received[t.id]
           r == IF t.started THEN [raised |-> FALSE, out |-> t.pending]
                ELSE async_on_data(device, dg.request_line, dg.headers)
           k == SendsBeforeSuspend(r.out)
       IN  /\ sent' = sent \o LogAll("responder", t.id, SubSeq(r.out, 1, k))
           /\ IF k < Len(r.out)
              THEN /\ ready' = Append(Tail(ready),
                          [id |-> t.id, started |-> TRUE,
                           pending |-> SubSeq(r.out, k + 1, Len(r.out))])
                   /\ UNCHANGED <<done, raised>>
              ELSE /\ ready' = Tail(ready)
                   /\ done' = done \cup {t.id}
                   /\ raised' = IF r.raised THEN raised \cup {t.id} ELSE raised
    /\ UNCHANGED <<device, callbacks, reading, pc, respTransport, annTransport, advertisements,
                   advIndex, timerPending, received>>
    /\ UNCHANGED httpVars

\* UpnpServer._create_device (line 885, lines 889-897): the device class is
\* instantiated, and with it its service (line 224).  An exception of the
\* constructor ends async_start.
CreateDevice ==
    /\ pc = "new"
    /\ LET made == service_init(service_class)
       IN  IF made.exception # NoException
           THEN /\ pc' = "failed"
                /\ UNCHANGED <<state_var_infos, state_variables, service_actions>>
           ELSE /\ pc' = "device_created"
                /\ state_var_infos' = made.infos
                /\ state_variables' = made.values
                /\ service_actions' = made.actions
    /\ UNCHANGED <<device, callbacks, reading, respTransport, annTransport, advertisements, advIndex,
                   timerPending, ready, received, done, raised, sent>>
    /\ UNCHANGED <<site, request, response, invoked, called_with, service_class,
                   created>>

\* A call of create_state_var on the built service (lines 108-132).
CreateStateVar(type_infos) ==
    /\ pc \in {"device_created", "start_ssdp"}
    /\ \E type_info \in type_infos :
          LET made == create_state_var(state_var_infos, state_variables,
                                       type_info)
          IN  /\ state_var_infos' = made.infos
              /\ state_variables' = made.values
              /\ created' = [type_info |-> type_info,
                             exception |-> made.exception]
    /\ UNCHANGED ssdpVars
    /\ UNCHANGED <<site, request, response, invoked, called_with, service_class,
                   service_actions>>

StartHttpServerNotListening ==
    /\ pc = "device_created"
    /\ pc' = "start_ssdp"
    /\ UNCHANGED <<device, callbacks, reading, respTransport, annTransport, advertisements, advIndex,
                   timerPending, ready, received, done, raised, sent>>
    /\ UNCHANGED httpVars

\* UpnpServer._async_start_http_server (line 886, lines 899-935): returns
\* when TCPSite.start has.
StartHttpServer ==
    /\ pc = "device_created"
    /\ pc' = "start_ssdp"
    /\ site' = "listening"
    /\ UNCHANGED <<device, callbacks, reading, respTransport, annTransport, advertisements, advIndex,
                   timerPending, ready, received, done, raised, sent>>
    /\ UNCHANGED serviceVars

\* UpnpServer.async_stop on a started server (lines 953-962) enters
\* SsdpAdvertisementAnnouncer.async_stop, whose first call is _send_byebye
\* (line 517).
AnnouncerSendByebye ==
    /\ pc = "running"
    /\ annTransport # NoTransport
    /\ pc' = "announcer_byebye"
    /\ sent' = sent \o LogAll("announcer", 0, send_byebye(device))
    /\ UNCHANGED <<device, callbacks, reading, respTransport, annTransport, advertisements, advIndex,
                   timerPending, ready, received, done, raised>>
    /\ UNCHANGED httpVars

\* SsdpAdvertisementAnnouncer.async_stop, line 518.
AnnouncerClose ==
    /\ pc = "announcer_byebye"
    /\ pc' = "announcer_stopped"
    /\ annTransport' = "closed"
    /\ UNCHANGED <<device, callbacks, reading, respTransport, advertisements, advIndex, timerPending,
                   ready, received, done, raised, sent>>
    /\ UNCHANGED httpVars

ResponderStopsFirst ==
    /\ pc = "running"
    /\ pc' = "responder_stopped"
    /\ respTransport' = "closed"
    /\ UNCHANGED <<device, callbacks, reading, annTransport, advertisements, advIndex, timerPending,
                   ready, received, done, raised, sent>>
    /\ UNCHANGED httpVars

\* SsdpSearchResponder.async_stop (line 962, lines 342-347).
ResponderAsyncStop ==
    /\ pc = "announcer_stopped"
    /\ respTransport # NoTransport
    /\ pc' = "responder_stopped"
    /\ respTransport' = "closed"
    /\ UNCHANGED <<device, callbacks, reading, annTransport, advertisements, advIndex, timerPending,
                   ready, received, done, raised, sent>>
    /\ UNCHANGED httpVars

\* UpnpServer._async_stop_http_server (line 956, lines 964-967).
StopHttpServer ==
    /\ pc = "responder_stopped"
    /\ pc' = "stopped"
    /\ site' = IF site # NoSite THEN "stopped" ELSE site
    /\ UNCHANGED <<device, callbacks, reading, respTransport, annTransport, advertisements, advIndex,
                   timerPending, ready, received, done, raised, sent>>
    /\ UNCHANGED serviceVars

\* The coroutine of async_stop is suspended in TCPSite.stop or has ended:
\* neither stop of an SSDP component suspends, so the loop runs no callback
\* between lines 517 and 962.
StopSuspended == pc \in {"responder_stopped", "stopped"}

\* The timer of line 542 fires after async_stop, which does not cancel it:
\* _announce_next moves the cursor (lines 526-528) and gives the packet to a
\* closed transport, which sends nothing; the timer is set again (line 542)
\* unless the send raised.
AnnounceTickClosed ==
    /\ StopSuspended
    /\ timerPending
    /\ annTransport = "closed"
    /\ advIndex' = NextAdvertisementIndex(advIndex, Len(advertisements))
    /\ timerPending' \in BOOLEAN
    /\ UNCHANGED <<device, callbacks, reading, pc, respTransport, annTransport, advertisements,
                   ready, received, done, raised, sent>>
    /\ UNCHANGED httpVars

\* The loop runs a task of _async_on_data after the responder's transport
\* was closed: nothing is sent, and a task that had something to send may
\* end with the exception of the send.
RunTaskClosed ==
    /\ StopSuspended
    /\ ready # <<>>
    /\ respTransport = "closed"
    /\ LET t == Head(ready)
           dg == received[t.id]
           r == IF t.started THEN [raised |-> FALSE, out |-> t.pending]
                ELSE async_on_data(device, dg.request_line, dg.headers)
       IN  /\ ready' = Tail(ready)
           /\ done' = done \cup {t.id}
           /\ \E send_raised \in BOOLEAN :
                 raised' = IF r.raised \/ (send_raised /\ r.out # <<>>)
                           THEN raised \cup {t.id} ELSE raised
    /\ UNCHANGED <<device, callbacks, reading, pc, respTransport, annTransport, advertisements,
                   advIndex, timerPending, received, sent>>
    /\ UNCHANGED httpVars

\* aiohttp gives a GET of the device URL or of the SCPD URL of the service to
\* to_xml (routes of lines 906 and 910-912).
DescriptionGet ==
    /\ site = "listening"
    /\ request.method = "GET"
    /\ response = NoResponse
    /\ response' = IF request.path = "device_url"
                   THEN to_xml(device_to_xml(device))
                   ELSE to_xml(service_to_xml(service_class, state_var_infos,
                                              service_actions))
    /\ UNCHANGED <<site, request, invoked, called_with, state_variables,
                   service_class, state_var_infos, service_actions, created>>
    /\ UNCHANGED ssdpVars

SubscribeStores ==
    /\ site = "listening"
    /\ request.method = "SUBSCRIBE"
    /\ response = NoResponse
    /\ response' = subscribe_handler
    /\ state_variables' = [state_variables EXCEPT !.Level = 1]
    /\ UNCHANGED <<site, request, invoked, called_with, service_class,
                   state_var_infos, service_actions, created>>
    /\ UNCHANGED ssdpVars

\* aiohttp gives a SUBSCRIBE of the event URL to subscribe_handler (route of
\* lines 916-920).
Subscribe ==
    /\ site = "listening"
    /\ request.method = "SUBSCRIBE"
    /\ response = NoResponse
    /\ response' = subscribe_handler
    /\ UNCHANGED <<site, request, invoked, called_with, state_variables,
                   service_class, state_var_infos, service_actions, created>>
    /\ UNCHANGED ssdpVars

\* aiohttp gives the control POST to action_handler (route of lines 912-914);
\* the bound handler behaves in one of the ways of HandlerBehaviours.
ControlPost ==
    /\ site = "listening"
    /\ request.method = "POST"
    /\ response = NoResponse
    /\ \E behaviour \in HandlerBehaviours :
          LET r == action_handler(service_actions, request, behaviour,
                                  state_variables)
          IN  /\ response' = r.response
              /\ invoked' = r.invoked
              /\ called_with' = r.kwargs
              /\ state_variables' = r.values
    /\ UNCHANGED <<site, request, service_class, state_var_infos,
                   service_actions,
                   created>>
    /\ UNCHANGED ssdpVars

-----------------------------------------------------------------------------
(* The event loop while async_start runs (lines 322-340, 489-509).         *)
(*                                                                         *)
(* SsdpProtocol is in ssdp.py and the loop is asyncio's.  The loop keeps   *)
(* its ready handles in a FIFO and runs them one at a time.  Making a      *)
(* datagram transport gives the loop three handles, in this order: the     *)
(* protocol's connection_made, the registration of the socket's reader,    *)
(* and the result of the waiter that create_datagram_endpoint awaits.      *)
(* connection_made makes a task of the on_connect coroutine and            *)
(* datagram_received makes a task of the on_data coroutine.                *)

\* A handle of the loop: what it runs and for which component; for a
\* datagram its id and whether the responder's transport was stored when it
\* arrived; for a task of _async_on_data that has suspended, its sends still
\* to do.
Handle(kind, by) ==
    [kind |-> kind, by |-> by, id |-> 0, connected |-> FALSE,
     started |-> FALSE, pending |-> <<>>]

EndpointHandles(by) ==
    <<Handle("connection_made", by), Handle("add_reader", by),
      Handle("waiter", by)>>

HeadIs(kind) == callbacks # <<>> /\ Head(callbacks).kind = kind

\* SsdpSearchResponder.async_start up to the await of line 333 (lines
\* 322-340): get_ssdp_socket, bind or create_datagram_endpoint raises, or
\* the transport is made and the coroutine waits.
ResponderEndpoint ==
    /\ pc = "constructed"
    /\ \E raises \in BOOLEAN :
          IF raises
          THEN /\ pc' = "start_failed"
               /\ UNCHANGED callbacks
          ELSE /\ pc' = "responder_waiting"
               /\ callbacks' = callbacks \o EndpointHandles("responder")
    /\ UNCHANGED <<device, reading, respTransport, annTransport, advertisements,
                   advIndex, timerPending, ready, received, done, raised, sent>>
    /\ UNCHANGED httpVars

\* The loop runs SsdpProtocol.connection_made: the coroutine of on_connect
\* becomes a task.
ConnectionMade ==
    /\ HeadIs("connection_made")
    /\ callbacks' = Append(Tail(callbacks),
                           Handle("on_connect", Head(callbacks).by))
    /\ UNCHANGED <<device, pc, reading, respTransport, annTransport,
                   advertisements, advIndex, timerPending, ready, received,
                   done, raised, sent>>
    /\ UNCHANGED httpVars

\* The loop registers the reader of the socket.
AddReader ==
    /\ HeadIs("add_reader")
    /\ callbacks' = Tail(callbacks)
    /\ reading' = (reading \/ Head(callbacks).by = "responder")
    /\ UNCHANGED <<device, pc, respTransport, annTransport, advertisements,
                   advIndex, timerPending, ready, received, done, raised, sent>>
    /\ UNCHANGED httpVars

\* The loop sets the result of the waiter: the task of async_start is to be
\* resumed.
WaiterDone ==
    /\ HeadIs("waiter")
    /\ callbacks' = Append(Tail(callbacks), Handle("wakeup", "async_start"))
    /\ UNCHANGED <<device, pc, reading, respTransport, annTransport,
                   advertisements, advIndex, timerPending, ready, received,
                   done, raised, sent>>
    /\ UNCHANGED httpVars

OnConnectIgnored ==
    /\ HeadIs("on_connect")
    /\ callbacks' = Tail(callbacks)
    /\ UNCHANGED <<device, pc, reading, respTransport, annTransport,
                   advertisements, advIndex, timerPending, ready, received,
                   done, raised, sent>>
    /\ UNCHANGED httpVars

\* The task of _async_on_connect (lines 249-251 and 485-487).
OnConnect ==
    /\ HeadIs("on_connect")
    /\ callbacks' = Tail(callbacks)
    /\ IF Head(callbacks).by = "responder"
       THEN respTransport' = "open" /\ UNCHANGED annTransport
       ELSE annTransport' = "open" /\ UNCHANGED respTransport
    /\ UNCHANGED <<device, pc, reading, advertisements, advIndex, timerPending,
                   ready, received, done, raised, sent>>
    /\ UNCHANGED httpVars

\* The task of async_start is resumed in the responder's async_start, which
\* returns (line 950), and runs the announcer's async_start up to the await
\* of line 500 (line 951, lines 489-506).
AnnouncerEndpoint ==
    /\ HeadIs("wakeup")
    /\ pc = "responder_waiting"
    /\ \E raises \in BOOLEAN :
          IF raises
          THEN /\ pc' = "start_failed"
               /\ callbacks' = Tail(callbacks)
          ELSE /\ pc' = "announcer_waiting"
               /\ callbacks' = Tail(callbacks) \o EndpointHandles("announcer")
    /\ UNCHANGED <<device, reading, respTransport, annTransport, advertisements,
                   advIndex, timerPending, ready, received, done, raised, sent>>
    /\ UNCHANGED httpVars

\* The task of async_start is resumed in the announcer's async_start, which
\* calls _announce_next (line 509): its assert (line 522) ends async_start
\* with an AssertionError when no transport is stored.
AnnouncerAnnounces ==
    /\ HeadIs("wakeup")
    /\ pc = "announcer_waiting"
    /\ callbacks' = Tail(callbacks)
    /\ IF annTransport = NoTransport
       THEN /\ pc' = "start_failed"
            /\ UNCHANGED <<annTransport, sent, advIndex, timerPending>>
       ELSE /\ pc' = "running"
            /\ annTransport' = annTransport
            /\ AnnounceNext
    /\ UNCHANGED <<device, reading, respTransport, advertisements, ready,
                   received, done, raised>>
    /\ UNCHANGED httpVars

\* A datagram arrives on the responder's socket: the selector reports the
\* socket readable and the loop is given the handle of the reader.
DatagramArrives(datagrams, maxDatagrams) ==
    /\ reading
    /\ respTransport # "closed"
    /\ Len(received) < maxDatagrams
    /\ \E dg \in datagrams :
          /\ received' = Append(received,
                [request_line |-> dg.request_line, headers |-> dg.headers,
                 at |-> Len(sent)])
          /\ callbacks' = Append(callbacks,
                [Handle("read_ready", "responder") EXCEPT
                    !.id = Len(received) + 1,
                    !.connected = (respTransport # NoTransport)])
    /\ UNCHANGED <<device, pc, reading, respTransport, annTransport,
                   advertisements, advIndex, timerPending, ready, done, raised,
                   sent>>
    /\ UNCHANGED httpVars

\* The loop runs the reader: SsdpProtocol.datagram_received makes a task of
\* _async_on_data.
ReadReady ==
    /\ HeadIs("read_ready")
    /\ callbacks' = Append(Tail(callbacks),
                           [Head(callbacks) EXCEPT !.kind = "on_data"])
    /\ UNCHANGED <<device, pc, reading, respTransport, annTransport,
                   advertisements, advIndex, timerPending, ready, received,
                   done, raised, sent>>
    /\ UNCHANGED httpVars

\* The loop runs a task of _async_on_data (lines 253-296) to its next
\* suspension point or to its end.  The assert of line 259 ends the task
\* with an AssertionError when no transport is stored; a closed transport
\* sends nothing and the send may raise.
OnData ==
    /\ HeadIs("on_data")
    /\ LET t == Head(callbacks)
           dg == received[t.id]
           r == IF t.started THEN [raised |-> FALSE, out |-> t.pending]
                ELSE async_on_data(device, dg.request_line, dg.headers)
           k == SendsBeforeSuspend(r.out)
       IN  IF respTransport = NoTransport
           THEN /\ callbacks' = Tail(callbacks)
                /\ done' = done \cup {t.id}
                /\ raised' = raised \cup {t.id}
                /\ UNCHANGED sent
           ELSE IF respTransport = "closed"
           THEN /\ callbacks' = Tail(callbacks)
                /\ done' = done \cup {t.id}
                /\ \E send_raised \in BOOLEAN :
                      raised' = IF r.raised \/ (send_raised /\ r.out # <<>>)
                                THEN raised \cup {t.id} ELSE raised
                /\ UNCHANGED sent
           ELSE /\ sent' = sent \o LogAll("responder", t.id, SubSeq(r.out, 1, k))
                /\ IF k < Len(r.out)
                   THEN /\ callbacks' = Append(Tail(callbacks),
                               [t EXCEPT !.started = TRUE,
                                         !.pending = SubSeq(r.out, k + 1,
                                                            Len(r.out))])
                        /\ UNCHANGED <<done, raised>>
                   ELSE /\ callbacks' = Tail(callbacks)
                        /\ done' = done \cup {t.id}
                        /\ raised' = IF r.raised THEN raised \cup {t.id}
                                     ELSE raised
    /\ UNCHANGED <<device, pc, reading, respTransport, annTransport,
                   advertisements, advIndex, timerPending, ready, received>>
    /\ UNCHANGED httpVars

\* SsdpAdvertisementAnnouncer exists once its constructor has built the list
\* of advertisements (line 482), which is never empty; the responder is made
\* just before it (lines 943-948).
SsdpComponentsExist == advertisements # <<>>

\* UpnpServer.async_stop (lines 953-968) on a server whose async_start was
\* never called: no component and no site, nothing is done.
AsyncStopNotStarted ==
    /\ pc = "new"
    /\ ~SsdpComponentsExist
    /\ site = NoSite
    /\ pc' = "stopped"
    /\ UNCHANGED <<device, callbacks, reading, respTransport, annTransport,
                   advertisements, advIndex, timerPending, ready, received,
                   done, raised, sent>>
    /\ UNCHANGED httpVars

\* UpnpServer.async_stop after async_start has ended with an exception of
\* _async_start_ssdp: the announcer exists (line 960) and its async_stop
\* asserts its transport (line 513).  The AssertionError leaves
\* _async_stop_ssdp and async_stop: lines 962-963 and 956 are not reached.
AsyncStopAfterFailedStart ==
    /\ pc = "start_failed"
    /\ SsdpComponentsExist
    /\ annTransport = NoTransport
    /\ pc' = "stop_raised"
    /\ UNCHANGED <<device, callbacks, reading, respTransport, annTransport,
                   advertisements, advIndex, timerPending, ready, received,
                   done, raised, sent>>
    /\ UNCHANGED httpVars

-----------------------------------------------------------------------------
(* Specifications.                                                         *)

\* The responder alone, every tree and every datagram, the datagrams
\* arriving one at a time.
InitResponder == InitWith(Trees(MaxDevices, MaxServices))

NextResponder ==
    \/ ConstructSsdp
    \/ ResponderAsyncStart
    \/ DatagramReceivedWhenIdle(AllDatagrams(device))
    \/ RunTask

SpecResponder == InitResponder /\ [][NextResponder]_vars

\* The announcer, every tree, no inbound datagram.
InitAnnouncer == InitWith(Trees(MaxDevices, MaxServices))

NextAnnouncer ==
    \/ ConstructSsdp
    \/ ResponderAsyncStart
    \/ AnnouncerAsyncStart
    \/ AnnounceTick(MaxCycles * Len(advertisements))

SpecAnnouncer == InitAnnouncer /\ [][NextAnnouncer]_vars

\* The timer of a running loop fires.
SpecAnnouncerFair ==
    SpecAnnouncer /\ WF_vars(AnnounceTick(MaxCycles * Len(advertisements)))

\* The whole event loop: both components, several datagrams in flight.
Init == InitWith(Trees(MaxLoopDevices, MaxServices))

Next ==
    \/ ConstructSsdp
    \/ ResponderAsyncStart
    \/ AnnouncerAsyncStart
    \/ AnnounceTick(MaxLoopAlive)
    \/ DatagramReceived(LoopDatagrams(device), MaxInFlight)
    \/ RunTask

Spec == Init /\ [][Next]_vars

\* The server from construction to the end of async_stop: a root device
\* without embedded devices (the byebye names the root device alone), probes
\* for ssdp:all, the timer.
ServerDatagrams(t) ==
    {Datagram(M_SEARCH_LINE, SSDP_DISCOVER, SSDP_ST_ALL, CHOOSE a \in Addrs : TRUE)}

InitServer ==
    /\ SsdpAtRest(Trees(1, MaxServices))
    /\ pc = "new"
    /\ site = NoSite
    /\ ServiceNotBuilt(DimService)

NextServer ==
    \/ CreateDevice
    \/ StartHttpServer
    \/ ConstructSsdp
    \/ ResponderAsyncStart
    \/ AnnouncerAsyncStart
    \/ AnnouncerSendByebye
    \/ AnnouncerClose
    \/ ResponderAsyncStop
    \/ StopHttpServer
    \/ (pc = "running" /\ AnnounceTick(MaxLoopAlive))
    \/ (pc \in {"responder_started", "running"}
          /\ DatagramReceived(ServerDatagrams(device), MaxInFlight))
    \/ (pc \in {"responder_started", "running"} /\ RunTask)
    \/ AnnounceTickClosed
    \/ RunTaskClosed

SpecServer == InitServer /\ [][NextServer]_vars

\* The started server with one request of any route: the SSDP components
\* from _async_start_ssdp to the end of the announcer's async_stop, the
\* handlers of the HTTP routes.
InitFrame ==
    /\ SsdpAtRest(Trees(1, 1))
    /\ pc = "start_ssdp"
    /\ site = "listening"
    /\ request \in OtherRequests \cup SomePosts
    /\ response = NoResponse
    /\ invoked = 0
    /\ called_with = NoKwargs
    /\ state_variables = DefaultStateVariables
    /\ service_class = DimService
    /\ state_var_infos = service_init(DimService).infos
    /\ service_actions = ServiceActions
    /\ created = NoCall

NextFrame ==
    \/ ConstructSsdp
    \/ ResponderAsyncStart
    \/ AnnouncerAsyncStart
    \/ (pc = "running" /\ AnnounceTick(MaxLoopAlive))
    \/ (pc \in {"responder_started", "running"}
          /\ DatagramReceived(ServerDatagrams(device), MaxInFlight))
    \/ (pc \in {"responder_started", "running"} /\ RunTask)
    \/ AnnouncerSendByebye
    \/ AnnouncerClose
    \/ DescriptionGet
    \/ Subscribe
    \/ ControlPost

SpecFrame == InitFrame /\ [][NextFrame]_vars

\* The construction of the service in async_start, for every service class,
\* and calls of create_state_var on the service once it is built.
InitService ==
    /\ SsdpAtRest(Trees(1, 1))
    /\ pc = "new"
    /\ site = NoSite
    /\ \E class \in ServiceClasses : ServiceNotBuilt(class)

NextService ==
    \/ CreateDevice
    \/ StartHttpServer
    \/ CreateStateVar(CallTypeInfos)

SpecService == InitService /\ [][NextService]_vars

\* async_start and async_stop with the event loop's handles: the endpoints
\* may fail, datagrams arrive as soon as the responder's socket is read, the
\* timer fires, async_stop is called on a server that was not started, that
\* failed to start, or that runs.
InitStart ==
    /\ SsdpAtRest(Trees(1, MaxServices))
    /\ pc = "new"
    /\ site = NoSite
    /\ ServiceNotBuilt(DimService)

NextStart ==
    \/ CreateDevice
    \/ StartHttpServer
    \/ ConstructSsdp
    \/ ResponderEndpoint
    \/ ConnectionMade
    \/ AddReader
    \/ WaiterDone
    \/ OnConnect
    \/ AnnouncerEndpoint
    \/ AnnouncerAnnounces
    \/ DatagramArrives(ServerDatagrams(device), MaxInFlight)
    \/ ReadReady
    \/ OnData
    \/ (pc = "running" /\ AnnounceTick(MaxLoopAlive))
    \/ AnnouncerSendByebye
    \/ AnnouncerClose
    \/ ResponderAsyncStop
    \/ StopHttpServer
    \/ AsyncStopNotStarted
    \/ AsyncStopAfterFailedStart

SpecStart == InitStart /\ [][NextStart]_vars

\* The action handler on every control POST, the HTTP server listening.
SoapTree == MkTree(1, [e \in {} |-> 1], FALSE, TRUE, 1, "root", TRUE)

InitSoap ==
    /\ SsdpAtRest({SoapTree})
    /\ pc = "start_ssdp"
    /\ site = "listening"
    /\ request \in Requests(MaxArgs)
    /\ response = NoResponse
    /\ invoked = 0
    /\ called_with = NoKwargs
    /\ state_variables \in ServiceStates
    /\ service_class = DimService
    /\ state_var_infos = service_init(DimService).infos
    /\ service_actions = ServiceActions
    /\ created = NoCall

NextSoap == ControlPost

SpecSoap == InitSoap /\ [][NextSoap]_vars

-----------------------------------------------------------------------------
(* Vocabulary of the properties.                                           *)

\* The datagram passes the check of the claim: start line and MAN as given.
Accepted(dg) ==
    /\ dg.request_line = "M-SEARCH * HTTP/1.1"
    /\ dg.headers.MAN = "\"ssdp:discover\""

\* Datagram p is an accepted probe whose ST is ssdp:all, in any case.
IsAllProbe(p) ==
    /\ Accepted(received[p])
    /\ received[p].headers.ST # NoST
    /\ Lower(received[p].headers.ST) = <<"s","s","d","p",":","a","l","l">>

\* |all_devices| and |all_services|.
NumDevices == Len(all_devices(device))
NumServices == Len(all_services(device))

STsOf(rs) == [i \in 1..Len(rs) |-> rs[i].headers.ST]
NTsOf(ads) == [i \in 1..Len(ads) |-> ads[i].NT]

UdnsInOrder == [i \in 1..NumDevices |-> device.udn[all_devices(device)[i]]]
DeviceTypesInOrder ==
    [i \in 1..NumDevices |-> device.device_type[all_devices(device)[i]]]
ServiceTypesInOrder ==
    [i \in 1..Len(all_services(device)) |-> all_services(device)[i].service_type]

\* Root slot; per device its UDN slot then its device-type slot; services.
OrderPerDevice ==
    <<RootDeviceLiteral>>
    \o [i \in 1..(2 * NumDevices) |->
          IF i % 2 = 1 THEN UdnsInOrder[(i + 1) \div 2]
          ELSE DeviceTypesInOrder[i \div 2]]
    \o ServiceTypesInOrder

\* Root slot; the UDN slots of all devices; their device-type slots; services.
OrderGrouped ==
    <<RootDeviceLiteral>> \o UdnsInOrder \o DeviceTypesInOrder
    \o ServiceTypesInOrder

-----------------------------------------------------------------------------
(* Properties.                                                             *)

\* C1: an accepted M-SEARCH whose ST is ssdp:all in any case is answered with
\* exactly 1 + 2*|all_devices| + |all_services| datagrams, every one of them
\* addressed to the probe's _remote_addr.
C1_AllCountAndAddress ==
    \A p \in done :
        IsAllProbe(p) =>
            /\ Len(ResponsesTo(p)) = 1 + 2 * NumDevices + NumServices
            /\ \A i \in 1..Len(ResponsesTo(p)) :
                  /\ ResponsesTo(p)[i].dst = received[p].headers._remote_addr
                  /\ ResponsesTo(p)[i].dst # MulticastTarget

\* An upper-case ssdp:all probe answered on a tree with three devices and two
\* services.
C1_Witness ==
    \E p \in done :
        /\ IsAllProbe(p)
        /\ received[p].headers.ST = Upper(SSDP_ST_ALL)
        /\ NumDevices = 3
        /\ NumServices = 2
        /\ Len(ResponsesTo(p)) = 9

\* C2 as stated: the responses to ssdp:all come in the order root, then per
\* device its UDN response followed by its device-type response, then the
\* services.
C2_OrderPerDevice ==
    \A p \in done : IsAllProbe(p) => STsOf(ResponsesTo(p)) = OrderPerDevice

\* C2 as amended: the responses to ssdp:all come in the order root, then the
\* UDN responses of all devices in all_devices order, then the device-type
\* responses of all devices in all_devices order, then the service-type
\* responses in all_services order.
C2_OrderGrouped ==
    \A p \in done : IsAllProbe(p) => STsOf(ResponsesTo(p)) = OrderGrouped

\* An ssdp:all probe answered on a tree where the two orders differ.
C2_Witness ==
    \E p \in done :
        /\ IsAllProbe(p)
        /\ NumDevices = 3
        /\ NumServices >= 1
        /\ OrderGrouped # OrderPerDevice
        /\ Len(ResponsesTo(p)) = Len(OrderGrouped)

\* C3: an accepted M-SEARCH whose ST is not ssdp:all is answered with one
\* root-device response for upnp:rootdevice, one UDN response per device
\* whose UDN equals the ST ignoring case, one device-type response per device
\* of that type, one service-type response per service of that type, and
\* nothing otherwise; the ST of every response is the stored value, not the
\* probe's spelling.
C3_ResponseSet ==
    \A p \in done :
        LET st == received[p].headers.ST
            rs == ResponsesTo(p)
            nRoot == IF Lower(st) = RootDeviceLiteral THEN 1 ELSE 0
            nUdn == Cardinality({d \in 1..device.n :
                                    Lower(device.udn[d]) = Lower(st)})
            nType == Cardinality({d \in 1..device.n :
                                    Lower(device.device_type[d]) = Lower(st)})
            nSvc == Cardinality({x \in (1..device.n) \X (1..MaxServices + 1) :
                                    /\ x[2] <= Len(device.services[x[1]])
                                    /\ Lower(device.services[x[1]][x[2]]) = Lower(st)})
        IN  (Accepted(received[p]) /\ st # NoST /\ ~IsAllProbe(p)) =>
                /\ Len(rs) = nRoot + nUdn + nType + nSvc
                /\ \A i \in 1..Len(rs) :
                      /\ Lower(rs[i].headers.ST) = Lower(st)
                      /\ rs[i].headers.ST \in
                            {RootDeviceLiteral} \cup StoredUdns(device)
                               \cup StoredDeviceTypes(device)
                               \cup StoredServiceTypes(device)
                /\ (nRoot = 1 \/ nUdn = 1) => Len(rs) = 1

\* An upper-case device type shared by two devices is answered twice, with
\* the stored spelling.
C3_Witness ==
    \E p \in done :
        /\ Accepted(received[p])
        /\ received[p].headers.ST = Upper(device.device_type[RootDevice])
        /\ Len(ResponsesTo(p)) = 2
        /\ ResponsesTo(p)[1].headers.ST = device.device_type[RootDevice]
        /\ ResponsesTo(p)[1].headers.ST # received[p].headers.ST

\* C4: the responder sends only in reaction to a datagram whose start line is
\* "M-SEARCH * HTTP/1.1" and whose MAN is "ssdp:discover" in quotes; any other
\* datagram is answered with nothing, whatever its ST.
C4_OnlySearchesAnswered ==
    /\ \A i \in 1..Len(sent) :
          IsResponse(sent[i]) =>
              /\ sent[i].probe \in 1..Len(received)
              /\ Accepted(received[sent[i].probe])
    /\ \A p \in done : ~Accepted(received[p]) => ResponsesTo(p) = <<>>

\* An M-SEARCH whose MAN lacks the quotes, with ST ssdp:all, has been handled
\* and nothing was sent for it.
C4_Witness ==
    \E p \in done :
        /\ received[p].request_line = M_SEARCH_LINE
        /\ received[p].headers.MAN = "ssdp:discover"
        /\ received[p].headers.ST = SSDP_ST_ALL
        /\ Responses = <<>>

C6_UsnComposition ==
    \A i \in 1..Len(sent) :
        IsResponse(sent[i]) =>
            LET st == sent[i].headers.ST
                usn == sent[i].headers.USN
                root == device.udn[RootDevice]
            IN  /\ st = RootDeviceLiteral => usn = root \o Sep \o RootDeviceLiteral
                /\ st \in StoredUdns(device) => usn = st
                /\ st \in StoredDeviceTypes(device) => usn = root \o Sep \o st
                /\ st \in StoredServiceTypes(device) => usn = root \o Sep \o st

\* C7: the responses to a datagram are all sent before any response to a
\* datagram that arrived later, and nothing else (no response to another
\* datagram, no advertisement) is sent between two responses to one datagram.
C7_NoInterleaving ==
    \A i, j \in 1..Len(sent) :
        (i < j /\ IsResponse(sent[i]) /\ IsResponse(sent[j])) =>
            /\ sent[i].probe <= sent[j].probe
            /\ sent[i].probe = sent[j].probe =>
                  \A k \in i..j :
                      IsResponse(sent[k]) /\ sent[k].probe = sent[i].probe

\* Two probes from different addresses were both waiting before either was
\* answered, each was answered with several responses, and the timer fired
\* between the last response to the first and the first response to the
\* second.
C7_Witness ==
    /\ done = {1, 2}
    /\ received[1].at = received[2].at
    /\ received[1].headers._remote_addr # received[2].headers._remote_addr
    /\ Len(ResponsesTo(1)) >= 2
    /\ Len(ResponsesTo(2)) >= 2
    /\ \E i, k, j \in 1..Len(sent) :
          /\ i < k /\ k < j
          /\ IsResponse(sent[i]) /\ sent[i].probe = 1
          /\ IsNotify(sent[k])
          /\ IsResponse(sent[j]) /\ sent[j].probe = 2

\* C8: an M-SEARCH with MAN "ssdp:discover" and no ST is dropped silently: no
\* response is sent for it and its handling raises no error.
C8_SilentDrop ==
    \A p \in done :
        (Accepted(received[p]) /\ received[p].headers.ST = NoST) =>
            /\ ResponsesTo(p) = <<>>
            /\ p \notin raised

\* C9, the state part: once the announcer is constructed its list has
\* 1 + 2*|all_devices| + |all_services| entries, in the order root slot, per
\* device its UDN slot then its device-type slot, then the services, each with
\* NTS ssdp:alive, BOOTID 1, CONFIGID 1 and LOCATION base_uri + device_url.
C9_ListShape ==
    pc # "start_ssdp" =>
        /\ Len(advertisements) = 1 + 2 * NumDevices + NumServices
        /\ NTsOf(advertisements) = OrderPerDevice
        /\ \A i \in 1..Len(advertisements) :
              /\ advertisements[i].NTS = "ssdp:alive"
              /\ advertisements[i].BOOTID = "1"
              /\ advertisements[i].CONFIGID = "1"
              /\ advertisements[i].LOCATION = device.base_uri \o device.device_url

\* C9: the list has that shape in every state, and no step changes it once
\* the announcer is constructed.
C9_AdvertisementList ==
    /\ []C9_ListShape
    /\ [][pc # "start_ssdp" => advertisements' = advertisements]_vars

\* The list of a tree with three devices and two services, after a tick.
C9_Witness ==
    /\ pc = "running"
    /\ NumDevices = 3
    /\ NumServices = 2
    /\ Len(advertisements) = 9
    /\ Len(Alives) >= 2

\* C10, the state part: the k-th alive NOTIFY is advertisements[(k-1) mod N]
\* and goes to the multicast target, the first one is sent by async_start, and
\* the cursor stays in 0..N-1 and is the number of NOTIFYs sent, mod N.
C10_Cursor ==
    LET N == Len(advertisements) IN
    /\ (pc = "running") <=> (Len(Alives) >= 1)
    /\ pc # "start_ssdp" =>
          /\ advIndex \in 0..(N - 1)
          /\ advIndex = Len(Alives) % N
    /\ \A k \in 1..Len(Alives) :
          /\ Alives[k].headers = advertisements[((k - 1) % N) + 1]
          /\ Alives[k].line = "NOTIFY * HTTP/1.1"
          /\ Alives[k].dst = MulticastTarget

\* C10, the progress part: a started announcer goes on to send every slot
\* again, pass after pass, up to the number of passes the model allows.
C10_EverySlotAgain ==
    (pc = "running")
    ~> (\A s \in 1..Len(advertisements) :
           Cardinality({k \in 1..Len(Alives) :
                           Alives[k].headers = advertisements[s]}) = MaxCycles)

\* C10: the cursor property in every state, and the progress property.
C10_RoundRobin == []C10_Cursor /\ C10_EverySlotAgain

\* The list of a tree with one device and one service (four slots) has been
\* sent once and the second pass has begun.
C10_Witness ==
    /\ pc = "running"
    /\ Len(advertisements) = 4
    /\ Len(Alives) = 6
    /\ Alives[5].headers = advertisements[1]
    /\ Alives[6].headers = advertisements[2]
    /\ advIndex = 2

-----------------------------------------------------------------------------
(* Start and stop of the server.                                           *)

IsAlive(e) == IsNotify(e) /\ e.headers.NTS = "ssdp:alive"
IsByebye(e) == IsNotify(e) /\ e.headers.NTS = "ssdp:byebye"

AliveNotifies == SelectSeq(sent, IsAlive)
Byebyes == SelectSeq(sent, IsByebye)

\* The announcer's async_stop has sent its byebye.
ByebyeDue ==
    pc \in {"announcer_byebye", "announcer_stopped", "responder_stopped", "stopped"}

\* C11: the stop of a started announcer sends exactly one byebye NOTIFY, with
\* NT upnp:rootdevice and USN <root.udn>::upnp:rootdevice, to the multicast
\* target, while the transport is still open; there is no byebye for another
\* slot and none before the stop.
C11_OneByebye ==
    /\ Len(Byebyes) = (IF ByebyeDue THEN 1 ELSE 0)
    /\ \A i \in 1..Len(Byebyes) :
          /\ Byebyes[i].line = "NOTIFY * HTTP/1.1"
          /\ Byebyes[i].dst = MulticastTarget
          /\ Byebyes[i].headers.NT = RootDeviceLiteral
          /\ Byebyes[i].headers.USN
                = device.udn[RootDevice] \o Sep \o RootDeviceLiteral
    /\ annTransport = "closed" => Len(Byebyes) = 1
    /\ pc = "announcer_byebye" => annTransport = "open"

\* A server that sent advertisements has been stopped: the byebye is in the
\* log, after the advertisements, and the transport is closed.
C11_Witness ==
    /\ annTransport = "closed"
    /\ Len(AliveNotifies) >= 2
    /\ Len(device.udn) >= 1
    /\ IsByebye(sent[Len(sent)])

\* C12 as stated: once the announcer's async_stop has closed the transport,
\* _announce_next is not executed again: the cursor does not move.
C12_NoAnnounceAfterStop ==
    [][annTransport = "closed" => advIndex' = advIndex]_vars

\* C13: async_stop of a started server stops the announcer, then the
\* responder, then the HTTP site: when the responder's transport is closed
\* the byebye has been sent and the announcer's transport is closed, and when
\* the site is stopped the responder's transport is closed.
C13_StopOrder ==
    /\ respTransport = "closed" =>
          /\ Len(Byebyes) = 1
          /\ annTransport = "closed"
    /\ pc = "responder_stopped" => site = "listening"
    /\ site = "stopped" => respTransport = "closed"

\* async_stop has gone through its three steps.
C13_Witness ==
    /\ pc = "stopped"
    /\ site = "stopped"
    /\ respTransport = "closed"
    /\ annTransport = "closed"
    /\ Len(Byebyes) = 1

\* C14, the state part: the HTTP site exists only after the device was
\* created, the responder's transport only after the site listens, the
\* announcer's transport only after the responder's.
C14_Order ==
    /\ site # "None" => pc \notin {"new", "device_created"}
    /\ pc = "new" => (respTransport = "None" /\ annTransport = "None")
    /\ respTransport # "None" => site # "None"
    /\ annTransport # "None" => respTransport # "None"
    /\ sent # <<>> => site # "None"

\* C14: async_start creates the device, starts the HTTP server, starts the
\* responder, starts the announcer, in this order; every search response and
\* every alive advertisement is sent while the HTTP site is listening.
C14_StartOrder ==
    /\ []C14_Order
    /\ [][Len(sent') > Len(sent) => (site = "listening" /\ site' = "listening")]_vars

\* A started server has answered a probe and advertised itself.
C14_Witness ==
    /\ pc = "running"
    /\ site = "listening"
    /\ Responses # <<>>
    /\ AliveNotifies # <<>>

-----------------------------------------------------------------------------
(* The SOAP action handler.                                                *)

\* action_handler has dealt with the request.
Handled == request # NoRequest /\ response # NoResponse

\* The SOAPAction header without its quotes, the number of "#" in it and,
\* when there is one "#", the part after it.
SoapActionText == Strip(request.soap_action, "\"")

HashCount ==
    Cardinality({i \in 1..Len(SoapActionText) : SoapActionText[i] = "#"})

NamedAction ==
    LET i == CHOOSE h \in 1..Len(SoapActionText) : SoapActionText[h] = "#"
    IN  SubSeq(SoapActionText, i + 1, Len(SoapActionText))

\* The body is XML with an s:Body that has a request element.
HasRequestElement ==
    /\ request.body.tag = "s:Envelope"
    /\ \E i \in 1..Len(request.body.children) :
          /\ request.body.children[i].tag = "s:Body"
          /\ request.body.children[i].children # <<>>

\* The children of the request element.
RequestArguments ==
    LET i == CHOOSE b \in 1..Len(request.body.children) :
                request.body.children[b].tag = "s:Body"
    IN  request.body.children[i].children[1].children

WellFormed == HashCount = 1 /\ HasRequestElement

ActionNames == {<<"S","e","t","L","e","v","e","l">>, <<"G","e","t","L","e","v","e","l">>}

\* C15, the state part: a well-formed POST whose action name is not an
\* action of the service is answered 400 InvalidAction and the handler is not
\* called.
C15_Answer ==
    (Handled /\ WellFormed /\ NamedAction \notin ActionNames) =>
        /\ response.status = 400
        /\ response.reason = "InvalidAction"
        /\ invoked = 0

\* C15: a well-formed control POST naming an unknown action is answered 400
\* InvalidAction; no handler is called and no state variable changes.
C15_InvalidAction ==
    /\ []C15_Answer
    /\ [][(WellFormed /\ NamedAction \notin ActionNames) =>
              state_variables' = state_variables]_vars

\* A POST with a quoted, well-formed SOAPAction naming an unknown action and
\* a body with arguments was answered, the state variables not being at
\* their defaults.
C15_Witness ==
    /\ Handled
    /\ WellFormed
    /\ NamedAction = <<"R","e","s","e","t">>
    /\ Len(RequestArguments) = 2
    /\ state_variables.Level = 5
    /\ response.reason = "InvalidAction"

\* C16: a control POST whose SOAPAction is missing or does not have exactly
\* one "#", or whose body is not XML with an s:Body holding a request
\* element, is answered 400 InvalidSoap, also when it names an unknown action;
\* no handler is called.
C16_InvalidSoap ==
    (Handled /\ ~WellFormed) =>
        /\ response.status = 400
        /\ response.reason = "InvalidSoap"
        /\ invoked = 0

\* A POST naming an unknown action with an s:Body that has no request element
\* was answered InvalidSoap.
C16_Witness ==
    /\ Handled
    /\ HashCount = 1
    /\ NamedAction = <<"R","e","s","e","t">>
    /\ request.body.tag = "s:Envelope"
    /\ ~HasRequestElement
    /\ response.reason = "InvalidSoap"

\* The in-arguments of the actions of the service, by action name.
InArgumentNames(action_name) ==
    IF action_name = <<"S","e","t","L","e","v","e","l">>
    THEN {"NewLevel", "NewName"}
    ELSE {}

\* The text of the child is accepted by the type of its in-argument: a
\* number for NewLevel, any text for NewName.
Coerces(child) ==
    child.tag = "NewLevel" =>
        /\ child.text # NoText
        /\ \A i \in 1..Len(child.text) :
              child.text[i] \in {"0","1","2","3","4","5","6","7","8","9"}

\* The request names an action of the service and its child k is not an
\* in-argument of that action.
OffendingChild(k) ==
    /\ WellFormed
    /\ NamedAction \in ActionNames
    /\ k \in 1..Len(RequestArguments)
    /\ RequestArguments[k].tag \notin InArgumentNames(NamedAction)

\* C17 as stated: a child that is not an in-argument of the named action
\* makes the answer 400 InvalidActionArgument, whatever the other children
\* and wherever the child is, and the handler is not called.
C17_AnyPosition ==
    (Handled /\ \E k \in 1..MaxArgs : OffendingChild(k)) =>
        /\ response.status = 400
        /\ response.reason = "InvalidActionArgument"
        /\ invoked = 0

\* C17 as amended: a child that is not an in-argument of the named action,
\* every child before it being an in-argument whose text its type accepts,
\* makes the answer 400 InvalidActionArgument, whatever the children after
\* it, and the handler is not called.
C17_FirstOffender ==
    (Handled /\ \E k \in 1..MaxArgs :
                  /\ OffendingChild(k)
                  /\ \A j \in 1..(k - 1) :
                        /\ ~OffendingChild(j)
                        /\ Coerces(RequestArguments[j])) =>
        /\ response.status = 400
        /\ response.reason = "InvalidActionArgument"
        /\ invoked = 0

\* A request whose second child is only an out-argument, after an in-argument
\* with a good text, was answered InvalidActionArgument.
C17_Witness ==
    /\ Handled
    /\ OffendingChild(2)
    /\ RequestArguments[1].tag = "NewLevel"
    /\ RequestArguments[1].text = <<"5">>
    /\ RequestArguments[2].tag = "OldLevel"
    /\ response.reason = "InvalidActionArgument"

\* The request names an action of the service, its child k is an in-argument
\* whose text the type does not accept, and every child before it is an
\* in-argument with an accepted text.
CoercionFailsAt(k) ==
    /\ WellFormed
    /\ NamedAction \in ActionNames
    /\ k \in 1..Len(RequestArguments)
    /\ \A j \in 1..k : RequestArguments[j].tag \in InArgumentNames(NamedAction)
    /\ \A j \in 1..(k - 1) : Coerces(RequestArguments[j])
    /\ ~Coerces(RequestArguments[k])

\* C18 as stated: an argument whose text fails coercion to the type of its
\* state variable is answered 500 with a SOAP Fault of errorCode 402, and the
\* handler is not called.
C18_CoercionFault ==
    (Handled /\ \E k \in 1..MaxArgs : CoercionFailsAt(k)) =>
        /\ response.kind = "fault"
        /\ response.status = 500
        /\ response.fault.errorCode = <<"4","0","2">>
        /\ invoked = 0

\* The errorCode text of a fault made from the exception.
ExpectedErrorCode(exception) ==
    IF exception.type = "UpnpValueError" THEN <<"4","0","2">>
    ELSE IF exception.error_code = -1 \/ exception.error_code = 0
    THEN <<"5","0","1">>
    ELSE IF exception.error_code = 718 THEN <<"7","1","8">>
    ELSE <<"?">>

\* C19: a UpnpActionError or UpnpValueError raised under action_handler's try
\* is answered 500 with a SOAP Fault whose faultcode is s:Client, whose
\* faultstring is UPnPError and whose errorCode is the error_code of a
\* UpnpActionError that has one other than 0, 501 for a UpnpActionError
\* without error_code or with 0, 402 for a UpnpValueError.
C19_FaultCodes ==
    (Handled /\ response.exception.type \in {"UpnpActionError", "UpnpValueError"}) =>
        /\ response.kind = "fault"
        /\ response.status = 500
        /\ response.fault.faultcode = "s:Client"
        /\ response.fault.faultstring = "UPnPError"
        /\ response.fault.errorCode = ExpectedErrorCode(response.exception)

\* The handler raised UpnpActionError with error_code 0 and the fault says
\* 501.
C19_Witness ==
    /\ Handled
    /\ invoked = 1
    /\ response.exception.type = "UpnpActionError"
    /\ response.exception.error_code = 0
    /\ response.kind = "fault"
    /\ response.fault.errorCode = <<"5","0","1">>

\* C20 as stated: an exception of the handler, or of the validation of the
\* arguments before it, that is neither a UpnpActionError nor a UpnpValueError
\* is answered 500 with a SOAP Fault of errorCode 501 and does not leave
\* action_handler.
C20_OtherExceptionFault ==
    (Handled /\ response.exception.type \in {"RuntimeError", "UpnpError"}) =>
        /\ response.kind = "fault"
        /\ response.status = 500
        /\ response.fault.errorCode = <<"5","0","1">>

-----------------------------------------------------------------------------
(* Dispatch, binding and the frame of the handlers.                        *)

\* The value the handler is to receive for the child: the number of a
\* NewLevel, the text of a NewName ("" for an element without text).
ExpectedValue(child) ==
    IF child.tag = "NewLevel" THEN IntOfDigits(child.text)
    ELSE IF child.text = NoText THEN <<>> ELSE child.text

\* The text of the child is a value of its state variable: NewLevel is a
\* number from 0 to 10, NewName is any text.
InRange(child) ==
    /\ Coerces(child)
    /\ child.tag = "NewLevel" => IntOfDigits(child.text) \in 0..10

\* The request names an action of the service and the children of its
\* request element are the in-arguments of the action, each once, in some
\* order, each with a value of its state variable.
PermutedInArguments ==
    /\ WellFormed
    /\ NamedAction \in ActionNames
    /\ Len(RequestArguments) = Cardinality(InArgumentNames(NamedAction))
    /\ {RequestArguments[k].tag : k \in 1..Len(RequestArguments)}
          = InArgumentNames(NamedAction)
    /\ \A k \in 1..Len(RequestArguments) : InRange(RequestArguments[k])

\* C21: a request whose children are the in-arguments of its action in any
\* order, with good values, calls the handler once with the mapping from
\* each name to its value; when the handler returns, the answer is 200 with
\* the element st:<action>Response in the namespace of the service type and
\* one child per entry of the handler's result.  Nothing of this depends on
\* the order of the children.
C21_AnyOrder ==
    (Handled /\ PermutedInArguments) =>
        /\ invoked = 1
        /\ DOMAIN called_with = InArgumentNames(NamedAction)
        /\ \A k \in 1..Len(RequestArguments) :
              called_with[RequestArguments[k].tag]
                  = ExpectedValue(RequestArguments[k])
        /\ response.kind \in {"response", "fault", "exception"}
        /\ response.exception = NoException =>
              /\ response.kind = "response"
              /\ response.status = 200
              /\ response.element.tag
                    = <<"s","t",":">> \o NamedAction
                        \o <<"R","e","s","p","o","n","s","e">>
              /\ response.element.xmlns = device.services[1][1]
              /\ Len(response.result) = Len(HandlerReturns(NamedAction))
              /\ \A i \in 1..Len(response.result) :
                    response.result[i].key = HandlerReturns(NamedAction)[i].key

\* SetLevel with NewName before NewLevel, the reverse of the declaration,
\* was answered 200 and the handler got NewLevel 5.
C21_Witness ==
    /\ Handled
    /\ PermutedInArguments
    /\ Len(RequestArguments) = 2
    /\ RequestArguments[1].tag = "NewName"
    /\ RequestArguments[2].tag = "NewLevel"
    /\ invoked = 1
    /\ called_with["NewLevel"] = 5
    /\ response.status = 200
    /\ response.element.tag # <<>>

\* The names and types STATE_VARIABLE_DEFINITIONS of the class defines.
DefinedNames(class) ==
    {class.state_variable_definitions[i].name :
        i \in 1..Len(class.state_variable_definitions)}

DefinedType(class, name) ==
    LET i == CHOOSE k \in 1..Len(class.state_variable_definitions) :
                class.state_variable_definitions[k].name = name
    IN  class.state_variable_definitions[i].data_type

\* The in-argument is not an annotated parameter of the handler.
NotAnnotated(method, item) == item.arg_name \notin DOMAIN method.annotations

\* The argument refers to a state variable the class does not define.
NoSuchStateVariable(class, item) ==
    item.state_var_name \notin DefinedNames(class)

\* The annotation of the in-argument is not the python type of its state
\* variable.
AnnotationDiffers(class, method, item) ==
    /\ ~NotAnnotated(method, item)
    /\ ~NoSuchStateVariable(class, item)
    /\ method.annotations[item.arg_name]
          # (IF DefinedType(class, item.state_var_name) = "ui2"
             THEN "int" ELSE "str")

BadBinding(class) ==
    \E m \in 1..Len(class.methods) :
        LET method == class.methods[m]
        IN  \/ \E i \in 1..Len(method.in_args) :
                  \/ NotAnnotated(method, method.in_args[i])
                  \/ NoSuchStateVariable(class, method.in_args[i])
                  \/ AnnotationDiffers(class, method, method.in_args[i])
            \/ \E i \in 1..Len(method.out_args) :
                  NoSuchStateVariable(class, method.out_args[i])

\* C23: the construction of the service fails, and no server is started,
\* when a bound action has an in-argument that is not an annotated parameter
\* of the handler, or whose annotation is not the python type of its state
\* variable, or an in- or out-argument that refers to a state variable the
\* service does not have; in a service that is constructed every argument
\* is related to a state variable of the service and the in-arguments of an
\* action have different names.
C23_BindingValidated ==
    /\ (pc # "new" /\ BadBinding(service_class)) =>
            /\ pc = "failed"
            /\ site = NoSite
            /\ service_actions = NoActions
    /\ pc \in {"device_created", "start_ssdp"} =>
            \A a \in DOMAIN service_actions :
                LET arguments == service_actions[a]
                IN  /\ \A i \in 1..Len(arguments) :
                          arguments[i].related_state_variable
                              \in DOMAIN state_var_infos
                    /\ \A i, j \in 1..Len(arguments) :
                          (/\ i # j
                           /\ arguments[i].direction = "in"
                           /\ arguments[j].direction = "in")
                              => arguments[i].name # arguments[j].name

\* The construction failed for a class whose only fault is the annotation
\* str of NewLevel, related to the ui2 variable Level.
C23_Witness ==
    /\ pc = "failed"
    /\ Len(service_class.methods) = 1
    /\ LET method == service_class.methods[1]
       IN  /\ Len(method.in_args) = 1
           /\ method.out_args = <<>>
           /\ AnnotationDiffers(service_class, method, method.in_args[1])
           /\ method.annotations["NewLevel"] = "str"

\* The value a default text stands for: the number of a ui2, the text of a
\* string.
DefaultValueOf(type_info) ==
    IF type_info.data_type = "ui2" THEN IntOfDigits(type_info.default_value)
    ELSE type_info.default_value

\* The step is a call of create_state_var for a name the service has.
CallsExisting ==
    /\ created' # created
    /\ created'.type_info.name \in DOMAIN state_var_infos

\* The step is a call of create_state_var for a name the service has not.
CallsNew ==
    /\ created' # created
    /\ created'.type_info.name \notin DOMAIN state_var_infos

\* C24: create_state_var for a name the service has raises UpnpError and
\* leaves every state variable as it is; for a new name it adds that one
\* variable, with send_events false and with the default as its value when
\* the definition has one, and leaves the others as they are.
C24_CreateStateVar ==
    [][/\ CallsExisting =>
            /\ created'.exception.type = "UpnpError"
            /\ state_var_infos' = state_var_infos
            /\ state_variables' = state_variables
       /\ CallsNew =>
            LET type_info == created'.type_info
                name == type_info.name
            IN  /\ created'.exception = NoException
                /\ DOMAIN state_var_infos' = DOMAIN state_var_infos \cup {name}
                /\ DOMAIN state_variables' = DOMAIN state_var_infos'
                /\ \A n \in DOMAIN state_var_infos :
                      /\ state_var_infos'[n] = state_var_infos[n]
                      /\ state_variables'[n] = state_variables[n]
                /\ state_var_infos'[name].data_type = type_info.data_type
                /\ state_var_infos'[name].send_events = FALSE
                /\ state_var_infos'[name].has_value
                      = (type_info.default_value # NoDefault)
                /\ type_info.default_value # NoDefault =>
                      state_variables'[name] = DefaultValueOf(type_info)]_vars

\* create_state_var was called for Level, which the service had as a ui2
\* with value 0, with another type: it raised and Level is as it was, next
\* to a variable Extra added by an earlier call.
C24_Witness ==
    /\ created.type_info = TypeInfo("Level", "string", <<"x">>)
    /\ created.exception.type = "UpnpError"
    /\ DOMAIN state_var_infos = {"Level", "Name", "Extra"}
    /\ state_var_infos["Level"].data_type = "ui2"
    /\ state_variables["Level"] = 0
    /\ state_variables["Extra"] = 7

\* The step handles a datagram: one arrives, or its task runs.
DatagramStep == received' # received \/ ready' # ready \/ done' # done

\* The step calls the bound handler.
HandlerStep == invoked' > invoked

\* C22: a step that does not call the bound handler (the handling of a
\* datagram, an advertisement, the byebye, a GET of a description, a
\* SUBSCRIBE, which is answered 404, a control POST answered 400) leaves the
\* values of the state variables, the state variables and the actions of the
\* service and the device tree as they are; the handling of a datagram
\* leaves the advertisement cursor as it is.
C22_Frame ==
    [][/\ ~HandlerStep =>
            /\ state_variables' = state_variables
            /\ state_var_infos' = state_var_infos
            /\ service_actions' = service_actions
            /\ device' = device
       /\ (request.method = "SUBSCRIBE" /\ response' # response) =>
            response'.status = 404
       /\ DatagramStep => advIndex' = advIndex]_vars

\* A SUBSCRIBE was answered 404 on a server that has answered a probe, sent
\* advertisements and the byebye; the state variables have their values.
C22_Witness ==
    /\ request.method = "SUBSCRIBE"
    /\ response.status = 404
    /\ done # {}
    /\ advIndex > 0
    /\ pc = "announcer_stopped"
    /\ state_variables = DefaultStateVariables

\* The request is a control POST that names an action of the service.
NamesAction ==
    /\ request.method = "POST"
    /\ WellFormed
    /\ NamedAction \in ActionNames

\* An in-argument of the named action is not among the children.
OmitsInArgument ==
    \E n \in InArgumentNames(NamedAction) :
        \A k \in 1..Len(RequestArguments) : RequestArguments[k].tag # n

\* Child k is a number that is not a value of its state variable.
OutOfRangeAt(k) ==
    /\ RequestArguments[k].tag = "NewLevel"
    /\ Coerces(RequestArguments[k])
    /\ IntOfDigits(RequestArguments[k].text) \notin 0..10

\* Child k is the last one of its name.
LastOfName(k) ==
    \A j \in (k + 1)..Len(RequestArguments) :
        RequestArguments[j].tag # RequestArguments[k].tag

\* C25 as stated: a control POST for an action of the service that omits an
\* in-argument of the action, or gives a value outside the range of its
\* state variable, does not reach the handler and changes no state variable.
C25_AnyInvalidValue ==
    [][(/\ response' # response
        /\ NamesAction
        /\ \/ OmitsInArgument
           \/ \E k \in 1..Len(RequestArguments) : OutOfRangeAt(k)) =>
            /\ invoked' = invoked
            /\ state_variables' = state_variables]_vars

\* C25 as amended: the handler is called only when every in-argument of the
\* action is among the children and, for each name, the value of the last
\* child of that name is a value of its state variable; a control POST that
\* omits an in-argument, or whose last value for a name is outside the
\* range, does not reach the handler and changes no state variable.
C25_LastValues ==
    [][/\ (/\ response' # response
           /\ NamesAction
           /\ \/ OmitsInArgument
              \/ \E k \in 1..Len(RequestArguments) :
                    LastOfName(k) /\ OutOfRangeAt(k)) =>
               /\ invoked' = invoked
               /\ state_variables' = state_variables
       /\ invoked' > invoked =>
               /\ NamesAction
               /\ ~OmitsInArgument
               /\ \A k \in 1..Len(RequestArguments) :
                     LastOfName(k) => InRange(RequestArguments[k])]_vars

\* SetLevel with NewLevel 50, which is above the maximum 10, and NewName
\* did not reach the handler; the state variables have their values.
C25_Witness ==
    /\ Handled
    /\ NamesAction
    /\ Len(RequestArguments) = 2
    /\ OutOfRangeAt(1)
    /\ RequestArguments[2].tag = "NewName"
    /\ invoked = 0
    /\ response.kind = "fault"
    /\ state_variables \in ServiceStates

-----------------------------------------------------------------------------
(* The announcer and the responder together.                               *)

\* The (NT, USN) pairs of a list of advertisements and the (ST, USN) pairs
\* of a sequence of responses, in order.
AdvertisedPairs(ads) == [i \in 1..Len(ads) |-> <<ads[i].NT, ads[i].USN>>]

AnsweredPairs(rs) ==
    [i \in 1..Len(rs) |-> <<rs[i].headers.ST, rs[i].headers.USN>>]

\* How often x is in the sequence.
CountOf(x, seq) == Cardinality({i \in 1..Len(seq) : seq[i] = x})

\* The two sequences have the same elements, each as often.
SameMultiset(a, b) ==
    /\ Len(a) = Len(b)
    /\ \A i \in 1..Len(a) : CountOf(a[i], a) = CountOf(a[i], b)

\* C26 as stated: on every tree the (NT, USN) pairs of the list of
\* advertisements are, as a multiset, the (ST, USN) pairs of the responses
\* to one ssdp:all probe.
C26_SamePairs ==
    \A p \in done :
        IsAllProbe(p) =>
            SameMultiset(AdvertisedPairs(advertisements),
                         AnsweredPairs(ResponsesTo(p)))

-----------------------------------------------------------------------------
(* async_stop after a prefix of async_start, and the stored transports.    *)

\* async_stop has ended, by returning or by an exception.
StopEnded == pc \in {"stopped", "stop_raised"}

\* C27: async_stop is safe after any prefix of async_start.  It does not
\* raise, and when it has ended no transport that was opened is still open
\* and the HTTP site, if it was started, is stopped.
C27_StopIsSafe ==
    /\ pc # "stop_raised"
    /\ StopEnded =>
          /\ respTransport # "open"
          /\ annTransport # "open"
          /\ site # "listening"

\* C27, the server that was never started: async_stop changes nothing but
\* its own position.
C27_StopOfNewServer ==
    [][(pc = "new" /\ pc' = "stopped") =>
          (UNCHANGED <<device, respTransport, annTransport, advertisements,
                       advIndex, timerPending, ready, callbacks, reading,
                       received, done, raised, sent>>
           /\ UNCHANGED httpVars)]_vars

\* A state in which async_stop has raised after a failed start.
C27_StopRaised ==
    /\ pc = "stop_raised"
    /\ site = "listening"
    /\ respTransport = "open"

\* The loop is about to run a task of _async_on_data (assert of line 259).
OnDataReached == HeadIs("on_data")

\* The loop is about to resume async_start at the call of _announce_next of
\* line 509 (assert of line 522).
FirstAnnounceReached == HeadIs("wakeup") /\ pc = "announcer_waiting"

\* C28: each "assert self._transport" holds when it is reached.  The
\* transport is stored when the loop is about to run a task of
\* _async_on_data, when async_start is about to send the first
\* advertisement, while a timer of _announce_next is pending, and once
\* async_start has returned, so in every async_stop of a started server and
\* in its _send_byebye.
C28_TransportStored ==
    /\ OnDataReached => respTransport # NoTransport
    /\ FirstAnnounceReached => annTransport # NoTransport
    /\ timerPending => annTransport # NoTransport
    /\ pc \in {"running", "announcer_byebye", "announcer_stopped"} =>
          /\ annTransport # NoTransport
          /\ respTransport # NoTransport

\* The loop is about to run the task of a datagram that arrived before the
\* responder's on_connect had run, and the transport is stored by now.
C28_Witness ==
    /\ OnDataReached
    /\ ~Head(callbacks).connected
    /\ respTransport = "open"

\* The first advertisement is about to be sent and the announcer's transport
\* is stored.
C28_WitnessAnnouncer ==
    /\ FirstAnnounceReached
    /\ annTransport = "open"

====
